---- MODULE Spec2Model ----
(***************************************************************************)
(* State-machine model of parts of SPFlow (sum-product networks):          *)
(*   - HypergeometricLayer: construction, set_params, marginalize          *)
(*   - PartitionLayer: sample                                              *)
(*   - HadamardLayer / conditional leaf layer: memoized log_likelihood     *)
(*   - Geometric leaf: maximum_likelihood_estimation                       *)
(*   - GaussianLayer: maximum_likelihood_estimation                        *)
(*   - Geometric leaf: em                                                  *)
(*   - GeneralGaussian: selection of the backend                           *)
(*   - legacy graph: equals, _print_node_graph, _get_node_counts           *)
(*   - legacy histogram leaf: create_histogram_leaf, histogram_likelihood  *)
(* Every component has its own specification (SpecHyper, SpecSample,       *)
(* SpecLL, SpecMLE); the variables of the other components stay idle.      *)
(***************************************************************************)
EXTENDS Integers, Sequences, FiniteSets, TLC

VARIABLES
    hgPc,       \* "idle" | "returned": position of the caller of the layer
    hgLayer,    \* the HypergeometricLayer object held by the caller
    hgCall,     \* the arguments of the call that returned last
    hgOut,      \* what that call returned or raised
    smPc,       \* "idle" | "returned": position of the caller of sample
    smLayer,    \* the PartitionLayer: its number of outputs (0: none built yet)
    smData,     \* the data array held by the caller: reference and cells
    smCall,     \* the arguments of the sample call that returned last
    smOut,      \* what that call returned or raised
    smLog,      \* the sub-calls sample made to the nodes of the layer, in order
    llPc,       \* "idle" | "returned": position of the caller of log_likelihood
    llNet,      \* the modules of the circuit the caller has built
    llCtx,      \* the DispatchContext the caller holds and passes explicitly
    llCall,     \* the arguments of the log_likelihood call that returned last
    llOut,      \* what that call returned or raised, and the context it used
    mlePc,      \* "idle" | "returned": position of the caller of the estimation
    mleLeaf,    \* the Geometric leaf: its parameter p, a fraction
    mleCall,    \* the arguments of the estimation call that returned last
    mleOut,     \* what that call raised, and the caller's weights after it
    gsPc,       \* "idle" | "returned": position of the caller of the layer estimation
    gsLayer,    \* the GaussianLayer: its nodes, each with scope, mean and std
    gsCall,     \* the arguments of the layer estimation that returned last
    gsOut,      \* what that call raised
    emPc,       \* "idle" | "returned": position of the caller of em
    emLeaf,     \* the Geometric leaf of the EM step: its parameter p
    emCtx,      \* the DispatchContext the caller holds and passes explicitly
    emCall,     \* the arguments of the call that returned last
    emOut,      \* what that call raised
    ggPc,       \* "idle" | "returned": position of the caller of GeneralGaussian
    ggBackend,  \* the numeric backend that is active (tl.get_backend())
    ggObj,      \* the Gaussian instance the caller holds
    ggCall,     \* the GeneralGaussian operation that returned last
    ggOut,      \* what it returned or raised, and the implementation it ran
    lgPc,       \* "idle" | "returned": position of the caller of the legacy graph
    lgNodes,    \* the nodes of the legacy graph, in the order they were built
    lgCall,     \* the operation on the legacy graph that returned last
    lgOut,      \* what it returned and printed, and the caller's list after it
    hsPc,       \* "idle" | "returned": position of the caller of the histogram leaf
    hsNode,     \* the Histogram leaf: its breaks and densities
    hsCall,     \* the operation on the histogram that returned or raised last
    hsOut,      \* what it raised, and the probabilities and logarithms it computed
    hsRpy,      \* the module global rpy_initialized, and how often the external
                \* statistical environment was bootstrapped in this process
    dsPc,       \* "idle" | "returned": position of the caller of add_domains
    dsCtx,      \* ds_context: the statistical types and the domain
    dsCall,     \* the data of the add_domains call that returned or raised last
    lsPc,       \* "idle" | "running" | "returned": position of the caller of learn_spn
    lsCall,     \* the arguments of the learn_spn call in progress
    lsStack,    \* the slices whose learn_spn activation has not run yet, first is next
    lsOut,      \* what the learn_spn call has built or raised so far
    txPc,       \* "idle" | "returned": position of the caller that serializes a
                \* Histogram leaf and parses the text back
    txCall,     \* the leaf and the feature names of that round trip
    txOut       \* the text, and the leaf or the error the parsing gave

hgVars == <<hgPc, hgLayer, hgCall, hgOut>>
smVars == <<smPc, smLayer, smData, smCall, smOut, smLog>>
llVars == <<llPc, llNet, llCtx, llCall, llOut>>
mleVars == <<mlePc, mleLeaf, mleCall, mleOut>>
gsVars == <<gsPc, gsLayer, gsCall, gsOut>>
emVars == <<emPc, emLeaf, emCtx, emCall, emOut>>
ggVars == <<ggPc, ggBackend, ggObj, ggCall, ggOut>>
lgVars == <<lgPc, lgNodes, lgCall, lgOut>>
hsVars == <<hsPc, hsNode, hsCall, hsOut, hsRpy>>
dsVars == <<dsPc, dsCtx, dsCall>>
lsVars == <<lsPc, lsCall, lsStack, lsOut>>
txVars == <<txPc, txCall, txOut>>
vars == <<hgVars, smVars, llVars, mleVars, gsVars, emVars, ggVars, lgVars, hsVars, dsVars, lsVars, txVars>>

\* the variables of the other components, which the actions of one leave alone
notHgVars == <<txVars, lsVars, dsVars, lgVars, hsVars, ggVars, emVars, smVars, llVars, mleVars, gsVars>>
notSmVars == <<txVars, lsVars, dsVars, lgVars, hsVars, ggVars, emVars, hgVars, llVars, mleVars, gsVars>>
notLlVars == <<txVars, lsVars, dsVars, lgVars, hsVars, ggVars, emVars, hgVars, smVars, mleVars, gsVars>>
notMleVars == <<txVars, lsVars, dsVars, lgVars, hsVars, ggVars, emVars, hgVars, smVars, llVars, gsVars>>
notGsVars == <<txVars, lsVars, dsVars, lgVars, hsVars, ggVars, hgVars, smVars, llVars, mleVars, emVars>>
notEmVars == <<txVars, lsVars, dsVars, lgVars, hsVars, ggVars, hgVars, smVars, llVars, mleVars, gsVars>>
notGgVars == <<txVars, lsVars, dsVars, lgVars, hsVars, hgVars, smVars, llVars, mleVars, gsVars, emVars>>
notLgVars == <<txVars, lsVars, dsVars, hsVars, hgVars, smVars, llVars, mleVars, gsVars, emVars, ggVars>>
notHsVars == <<txVars, lsVars, dsVars, lgVars, hgVars, smVars, llVars, mleVars, gsVars, emVars, ggVars>>
notDsVars == <<txVars, lsVars, hsVars, lgVars, hgVars, smVars, llVars, mleVars, gsVars, emVars, ggVars>>
notLsVars == <<txVars, dsVars, hsVars, lgVars, hgVars, smVars, llVars, mleVars, gsVars, emVars, ggVars>>
notTxVars == <<lsVars, dsVars, hsVars, lgVars, hgVars, smVars, llVars, mleVars, gsVars, emVars, ggVars>>

(***************************************************************************)
(* Generic helpers                                                         *)
(***************************************************************************)
\* all sequences over S of length lo..hi
SeqsOf(S, lo, hi) == UNION {[1..k -> S] : k \in lo..hi}

Range(s) == {s[i] : i \in 1..Len(s)}

\* the reference of a newly allocated object: one that no live object has
FreshRef(live) == CHOOSE r \in 1..(Cardinality(live) + 1) : r \notin live

(***************************************************************************)
(* HypergeometricLayer                                                     *)
(*   src/src/spflow/tensorly/structure/general/layers/leaves/parametric/   *)
(*   hypergeometric.py                                                     *)
(***************************************************************************)
\* largest number of nodes of a layer the model constructs
MaxNodes == 3

\* random variables (query indices) scopes are drawn from
HgVars == {0, 1}

\* values the parameters N, M and n are drawn from: every combination is in
\* the documented domain 0 <= M <= N, 0 <= n <= N
HgNVals == {2, 3}
HgMVals == {1, 2}
HgnVals == {1, 2}

\* A parameter argument as the caller passes it: an int, a one-dimensional
\* list/array ("seq"), a nested list/array of two dimensions ("nested") or a
\* zero-dimensional array ("scalar0").
IntArg(v) == [tag |-> "int", val |-> v, vals |-> <<>>]
SeqArg(s) == [tag |-> "seq", val |-> 0, vals |-> s]
NestedArg(s) == [tag |-> "nested", val |-> 0, vals |-> s]
Scalar0Arg(v) == [tag |-> "scalar0", val |-> v, vals |-> <<>>]
NoArg == [tag |-> "none", val |-> 0, vals |-> <<>>]

\* set_params, lines 202-205 (215-218, 228-231): an int is broadcast to n_out
\* values, a list becomes an array
HgBroadcast(a, n_out) ==
    IF a.tag = "int" THEN SeqArg([i \in 1..n_out |-> a.val]) ELSE a

\* tl.ndim of the (converted) argument
HgNdim(a) ==
    CASE a.tag = "seq" -> 1
      [] a.tag = "nested" -> 2
      [] OTHER -> 0

\* mutant of HgShapeOk: the length check only rejects lists that are too short
HgShapeOkShortOnly(a, n_out) ==
    LET b == HgBroadcast(a, n_out)
    IN  /\ HgNdim(b) = 1
        /\ Len(b.vals) >= n_out

\* set_params, lines 206-213: the dimension and length checks of one parameter
HgShapeOk(a, n_out) ==
    LET b == HgBroadcast(a, n_out)
    IN  /\ HgNdim(b) = 1
        /\ Len(b.vals) = n_out

\* set_params, lines 241-255: all values of one parameter over the same query
\* variable are identical
HgSameScopeOk(scopes, vals) ==
    \A i \in 1..Len(scopes) : \A j \in 1..Len(scopes) :
        scopes[i] = scopes[j] => vals[i] = vals[j]

\* Hypergeometric.set_params of one node: N >= 0, 0 <= M <= N, 0 <= n <= N
\* (class docstring, lines 41-46)
HgNodeValid(N, M, n) ==
    /\ N >= 0
    /\ M >= 0 /\ M <= N
    /\ n >= 0 /\ n <= N

HgNode(s, N, M, n) == [scope |-> s, N |-> N, M |-> M, n |-> n]

\* set_params, lines 257-258: the nodes are set one after the other, and the
\* first node whose values are invalid raises; the nodes before it are set
HgSetNodes(nodes, N, M, n) ==
    LET bad == {i \in 1..Len(nodes) : ~HgNodeValid(N[i], M[i], n[i])}
        stop == IF bad = {} THEN Len(nodes) + 1
                ELSE CHOOSE i \in bad : \A j \in bad : i <= j
    IN  [err |-> IF bad = {} THEN "none" ELSE "ValueError",
         nodes |-> [i \in 1..Len(nodes) |->
                      IF i < stop
                      THEN HgNode(nodes[i].scope, N[i], M[i], n[i])
                      ELSE nodes[i]]]

\* HypergeometricLayer.set_params, lines 183-258
HgSetParamsEval(layer, aN, aM, an) ==
    LET n_out == Len(layer.nodes)
        N == HgBroadcast(aN, n_out).vals
        M == HgBroadcast(aM, n_out).vals
        n == HgBroadcast(an, n_out).vals
    IN  IF ~HgShapeOk(aN, n_out) \/ ~HgShapeOk(aM, n_out) \/ ~HgShapeOk(an, n_out)
        THEN [err |-> "ValueError", nodes |-> layer.nodes]
        ELSE IF \/ ~HgSameScopeOk(layer.scopes_out, N)
                \/ ~HgSameScopeOk(layer.scopes_out, M)
                \/ ~HgSameScopeOk(layer.scopes_out, n)
        THEN [err |-> "ValueError", nodes |-> layer.nodes]
        ELSE HgSetNodes(layer.nodes, N, M, n)

NoLayer == [ref |-> 0, kind |-> "None", scopes_out |-> <<>>, nodes |-> <<>>]

\* A scope argument of the constructor: one Scope with n_nodes, or a list
SingleScope(q, k) == [single |-> TRUE, q |-> q, n_nodes |-> k, list |-> <<>>]
ScopeList(s) == [single |-> FALSE, q |-> 0, n_nodes |-> 1, list |-> s]

\* HypergeometricLayer.__init__, lines 81-104
HgInitEval(sc, aN, aM, an, ref) ==
    LET scope == IF sc.single THEN [i \in 1..sc.n_nodes |-> sc.q] ELSE sc.list
        fresh == [ref |-> ref, kind |-> "layer", scopes_out |-> scope,
                  nodes |-> [i \in 1..Len(scope) |-> HgNode(scope[i], 1, 1, 1)]]
        set == HgSetParamsEval(fresh, aN, aM, an)
    IN  IF sc.single /\ sc.n_nodes < 1 THEN [err |-> "ValueError", obj |-> NoLayer]
        ELSE IF ~sc.single /\ Len(sc.list) = 0 THEN [err |-> "ValueError", obj |-> NoLayer]
        ELSE IF set.err # "none" THEN [err |-> set.err, obj |-> NoLayer]
        ELSE [err |-> "none", obj |-> [fresh EXCEPT !.nodes = set.nodes]]

\* marginalize of one univariate leaf node: None when its query variable is
\* marginalized, the node otherwise
HgNodeSurvives(node, marg_rvs) == node.scope \notin marg_rvs

\* mutant of HgSurvivors: the test "marg_node is not None" is inverted
HgSurvivorsInverted(layer, marg_rvs) ==
    SelectSeq(layer.nodes, LAMBDA nd : ~HgNodeSurvives(nd, marg_rvs))

\* marginalize, lines 349-358: scopes and parameters of the surviving nodes
HgSurvivors(layer, marg_rvs) ==
    SelectSeq(layer.nodes, LAMBDA nd : HgNodeSurvives(nd, marg_rvs))

\* marginalize(layer, marg_rvs, prune), lines 346-367
HgMarginalizeEval(layer, marg_rvs, prune, ref) ==
    LET surv == HgSurvivors(layer, marg_rvs)
        marg_scopes == [i \in 1..Len(surv) |-> surv[i].scope]
    IN  IF Len(surv) = 0 THEN [err |-> "none", obj |-> NoLayer]
        ELSE IF Len(surv) = 1 /\ prune
        THEN [err |-> "none",
              obj |-> [ref |-> ref, kind |-> "node", scopes_out |-> marg_scopes,
                       nodes |-> surv]]
        ELSE HgInitEval(ScopeList(marg_scopes),
                        SeqArg([i \in 1..Len(surv) |-> surv[i].N]),
                        SeqArg([i \in 1..Len(surv) |-> surv[i].M]),
                        SeqArg([i \in 1..Len(surv) |-> surv[i].n]),
                        ref)

\* lists of n_out values that are constant but for at most one position
HgLists(Vals, n_out) ==
    {s \in SeqsOf(Vals, n_out, n_out) :
        \E v \in Vals : Cardinality({i \in 1..n_out : s[i] # v}) <= 1}

\* well-formed arguments for one parameter of a layer of n_out nodes: the ints
\* and the lists of n_out values
HgGoodArgs(Vals, n_out) ==
    {IntArg(v) : v \in Vals} \cup {SeqArg(s) : s \in HgLists(Vals, n_out)}

\* malformed arguments: a list one too short and one too long, a nested list
\* and a zero-dimensional array
HgBadArgs(n_out) ==
    {SeqArg([i \in 1..(n_out - 1) |-> 1]), SeqArg([i \in 1..(n_out + 1) |-> 1]),
     NestedArg([i \in 1..n_out |-> 1]), Scalar0Arg(1)}

\* the arguments <<N, M, n>> the model passes: all three well-formed, or one
\* of them malformed and the two others ints
HgArgs(n_out) ==
    (HgGoodArgs(HgNVals, n_out) \X HgGoodArgs(HgMVals, n_out) \X HgGoodArgs(HgnVals, n_out))
    \cup {<<b, IntArg(M), IntArg(n)>> : b \in HgBadArgs(n_out), M \in HgMVals, n \in HgnVals}
    \cup {<<IntArg(N), b, IntArg(n)>> : b \in HgBadArgs(n_out), N \in HgNVals, n \in HgnVals}
    \cup {<<IntArg(N), IntArg(M), b>> : b \in HgBadArgs(n_out), N \in HgNVals, M \in HgMVals}

HgScopeArgs ==
    {SingleScope(q, k) : q \in HgVars, k \in 0..MaxNodes}
    \cup {ScopeList(s) : s \in SeqsOf(HgVars, 0, MaxNodes)}

HgNOutOf(sc) == IF sc.single THEN sc.n_nodes ELSE Len(sc.list)

NoCall == [op |-> "none", scope |-> ScopeList(<<>>), N |-> NoArg, M |-> NoArg,
           n |-> NoArg, marg_rvs |-> {}, prune |-> FALSE, before |-> NoLayer]

HgIdle ==
    /\ hgPc = "idle"
    /\ hgLayer = NoLayer
    /\ hgCall = NoCall
    /\ hgOut = [err |-> "none", obj |-> NoLayer]

\* l = HypergeometricLayer(scope, N, M, n, n_nodes)
HgConstruct ==
    /\ hgPc = "idle"
    /\ hgLayer = NoLayer
    /\ \E sc \in HgScopeArgs :
         \E a \in HgArgs(HgNOutOf(sc)) :
            LET r == HgInitEval(sc, a[1], a[2], a[3], FreshRef({}))
            IN  /\ hgOut' = r
                /\ hgLayer' = r.obj
                /\ hgCall' = [NoCall EXCEPT !.op = "init", !.scope = sc,
                                            !.N = a[1], !.M = a[2], !.n = a[3]]
    /\ hgPc' = "returned"
    /\ UNCHANGED notHgVars

\* l.set_params(N, M, n)
HgSetParams ==
    /\ hgPc = "idle"
    /\ hgLayer # NoLayer
    /\ \E a \in HgArgs(Len(hgLayer.nodes)) :
            LET r == HgSetParamsEval(hgLayer, a[1], a[2], a[3])
            IN  /\ hgOut' = [err |-> r.err, obj |-> NoLayer]
                /\ hgLayer' = [hgLayer EXCEPT !.nodes = r.nodes]
                /\ hgCall' = [NoCall EXCEPT !.op = "set_params", !.N = a[1],
                                            !.M = a[2], !.n = a[3], !.before = hgLayer]
    /\ hgPc' = "returned"
    /\ UNCHANGED notHgVars

\* a value of M outside the documented domain: above every N
HgMOutside == 4

\* l.set_params(N, M, n) with a list for M that holds a value outside the
\* domain: the node that is given it raises
HgSetParamsOutside ==
    /\ hgPc = "idle"
    /\ hgLayer # NoLayer
    /\ \E N \in HgNVals, n \in HgnVals :
       \E M \in SeqsOf(HgMVals \cup {HgMOutside}, Len(hgLayer.nodes), Len(hgLayer.nodes)) :
            /\ HgMOutside \in Range(M)
            /\ LET r == HgSetParamsEval(hgLayer, IntArg(N), SeqArg(M), IntArg(n))
               IN  /\ hgOut' = [err |-> r.err, obj |-> NoLayer]
                   /\ hgLayer' = [hgLayer EXCEPT !.nodes = r.nodes]
                   /\ hgCall' = [NoCall EXCEPT !.op = "set_params", !.N = IntArg(N),
                                               !.M = SeqArg(M), !.n = IntArg(n),
                                               !.before = hgLayer]
    /\ hgPc' = "returned"
    /\ UNCHANGED notHgVars

\* variables marginalize may be asked to remove: those of the scopes and one
\* that no scope holds
HgMargVars == HgVars \cup {2}

\* r = marginalize(l, marg_rvs, prune), called without a dispatch context
HgMarginalize ==
    /\ hgPc = "idle"
    /\ hgLayer # NoLayer
    /\ \E marg_rvs \in SUBSET HgMargVars, prune \in BOOLEAN :
            LET r == HgMarginalizeEval(hgLayer, marg_rvs, prune, FreshRef({hgLayer.ref}))
            IN  /\ hgOut' = r
                /\ hgCall' = [NoCall EXCEPT !.op = "marginalize", !.marg_rvs = marg_rvs,
                                            !.prune = prune, !.before = hgLayer]
    /\ hgPc' = "returned"
    /\ UNCHANGED <<hgLayer, notHgVars>>

\* the caller goes on after a call returned or raised
HgContinue ==
    /\ hgPc = "returned"
    /\ hgPc' = "idle"
    /\ hgCall' = NoCall
    /\ hgOut' = [err |-> "none", obj |-> NoLayer]
    /\ UNCHANGED <<hgLayer, notHgVars>>

(***************************************************************************)
(* PartitionLayer: sample                                                  *)
(*   src/src/spflow/base/sampling/spn/layers/partition_layer.py            *)
(***************************************************************************)
\* number of rows of the data array
NRows == 3

\* largest number of outputs of the layer
MaxOut == 2

\* largest number of output ids the sampling context lists for one instance
MaxIds == 2

SmRows == 0..(NRows - 1)

\* a cell of the data array over the scope of the layer: missing (NaN),
\* evidence given by the caller, or a value sampled by node k
SmNaN == [kind |-> "nan", node |-> 0]
SmEvidence == [kind |-> "evidence", node |-> 0]
SmSampled(k) == [kind |-> "sampled", node |-> k]

NoData == [ref |-> 0, cells |-> <<>>]

\* SamplingContext(instance_ids, output_ids)
SamplingContext(instance_ids, output_ids) ==
    [instance_ids |-> instance_ids, output_ids |-> output_ids]

\* init_default_sampling_context, line 56: a given context is used as it is;
\* without one all rows are sampled, each from output 0
SmNoCtx == [instance_ids |-> <<>>, output_ids |-> <<>>, none |-> TRUE]
SmDefaultCtx(n) == SamplingContext([i \in 1..n |-> i - 1], [i \in 1..n |-> <<0>>])

\* sampling_ctx.unique_outputs_ids(return_indices=True), lines 59-61: the distinct
\* output-id lists, each with the positions of the instances that request it;
\* order is one of the orders of the distinct lists
SmGroupsIn(ctx, order) ==
    [g \in 1..Len(order) |->
        [node_ids |-> order[g],
         indices |-> SelectSeq([i \in 1..Len(ctx.output_ids) |-> i],
                               LAMBDA i : ctx.output_ids[i] = order[g])]]

SmOrders(ctx) ==
    LET U == Range(ctx.output_ids)
    IN  {o \in [1..Cardinality(U) -> U] : Range(o) = U}

\* mutant of SmInvalidGroup: only an empty output-id list is rejected
SmInvalidGroupEmptyOnly(node_ids, n_out) == Len(node_ids) = 0

\* lines 62-67: the condition under which a group raises ValueError
SmInvalidGroup(node_ids, n_out) ==
    Len(node_ids) # 1 \/ (Len(node_ids) = 0 /\ n_out # 1)

\* mutant of SmNodeInstanceIds: every instance of the context is handed on
SmNodeInstanceIdsAll(instance_ids, indices) == instance_ids

\* line 70: node_instance_ids = np.array(sampling_ctx.instance_ids)[indices]
SmNodeInstanceIds(instance_ids, indices) ==
    [k \in 1..Len(indices) |-> instance_ids[indices[k]]]

\* sample(partition_layer.nodes[node_id], data, ..., SamplingContext(ids, [[]..]))
\* of an internal node over the scope of the layer: the missing entries of the
\* rows it is handed are filled, in place
SmNodeSample(cells, node_id, ids) ==
    [r \in SmRows |->
        IF r \in Range(ids) /\ cells[r] = SmNaN THEN SmSampled(node_id) ELSE cells[r]]

\* lines 59-80: the loop over the groups from group g on; st is the state
\* the loop has reached: the cells of data, the sub-calls made, the error
RECURSIVE SmLoop(_, _, _, _, _)
SmLoop(groups, g, ctx, n_out, st) ==
    IF g > Len(groups) THEN st
    ELSE IF SmInvalidGroup(groups[g].node_ids, n_out)
    THEN [st EXCEPT !.err = "ValueError"]
    ELSE LET node_id == groups[g].node_ids[1]
             ids == SmNodeInstanceIds(ctx.instance_ids, groups[g].indices)
         IN  SmLoop(groups, g + 1, ctx, n_out,
                    [st EXCEPT !.cells = SmNodeSample(st.cells, node_id, ids),
                               !.log = Append(st.log, [node |-> node_id,
                                                       instances |-> ids])])

\* sample(partition_layer, data, sampling_ctx=ctx), lines 54-82
SmSampleEval(n_out, data, ctxArg, order) ==
    LET ctx == IF ctxArg = SmNoCtx THEN SmDefaultCtx(NRows) ELSE ctxArg
        end == SmLoop(SmGroupsIn(ctx, order), 1, ctx, n_out,
                      [cells |-> data.cells, log |-> <<>>, err |-> "none"])
    IN  [err |-> end.err, cells |-> end.cells, log |-> end.log,
         ref |-> IF end.err = "none" THEN data.ref ELSE 0]

\* instance lists: distinct rows in ascending order
SmInstanceLists ==
    {s \in SeqsOf(SmRows, 0, NRows) : \A i \in 1..Len(s), j \in 1..Len(s) : i < j => s[i] < s[j]}

\* output-id lists of one instance: none, one id, or the first ids in turn
SmIdLists(n_out) ==
    {<<>>} \cup {<<k>> : k \in 0..(n_out - 1)}
    \cup {[i \in 1..m |-> (i - 1) % n_out] : m \in 2..MaxIds}

SmCtxArgs(n_out) ==
    {SmNoCtx} \cup
    UNION {{SamplingContext(ids, outs) : outs \in [1..Len(ids) -> SmIdLists(n_out)]} :
           ids \in SmInstanceLists}

SmNoCall == [ctx |-> SmNoCtx, before |-> NoData]

SmIdle ==
    /\ smPc = "idle"
    /\ smLayer = 0
    /\ smData = NoData
    /\ smCall = SmNoCall
    /\ smOut = [err |-> "none", ref |-> 0]
    /\ smLog = <<>>

\* the caller builds a PartitionLayer with n_out outputs and a data array with
\* missing entries and evidence
SmSetup ==
    /\ smPc = "idle"
    /\ smLayer = 0
    /\ \E n_out \in 1..MaxOut, cells \in [SmRows -> {SmNaN, SmEvidence}] :
            /\ smLayer' = n_out
            /\ smData' = [ref |-> FreshRef({}), cells |-> cells]
    /\ UNCHANGED <<smPc, smCall, smOut, smLog, notSmVars>>

\* r = sample(partition_layer, data, sampling_ctx=ctx)
SmSample ==
    /\ smPc = "idle"
    /\ smLayer # 0
    /\ \E ctxArg \in SmCtxArgs(smLayer) :
         \E order \in SmOrders(IF ctxArg = SmNoCtx THEN SmDefaultCtx(NRows) ELSE ctxArg) :
            LET r == SmSampleEval(smLayer, smData, ctxArg, order)
            IN  /\ smData' = [smData EXCEPT !.cells = r.cells]
                /\ smOut' = [err |-> r.err, ref |-> r.ref]
                /\ smLog' = r.log
                /\ smCall' = [ctx |-> ctxArg, before |-> smData]
    /\ smPc' = "returned"
    /\ UNCHANGED <<smLayer, notSmVars>>

\* the caller is done with the array and the layer after sample returned or
\* raised
SmContinue ==
    /\ smPc = "returned"
    /\ smPc' = "idle"
    /\ smLayer' = 0
    /\ smData' = NoData
    /\ smCall' = SmNoCall
    /\ smOut' = [err |-> "none", ref |-> 0]
    /\ smLog' = <<>>
    /\ UNCHANGED notSmVars

(***************************************************************************)
(* Memoized log_likelihood of HadamardLayer and of a conditional leaf      *)
(* layer                                                                   *)
(*   src/src/spflow/base/inference/spn/layers/hadamard_layer.py            *)
(*   src/src/spflow/tensorly/inference/general/layers/leaves/parametric/   *)
(*   cond_gaussian.py                                                      *)
(* The model follows one row of the data batch: every log-likelihood is    *)
(* computed row by row.                                                    *)
(***************************************************************************)
\* largest number of outputs of a leaf layer
MaxSlots == 2

\* module identifiers of a circuit
LlIds == 1..7

\* values of one entry of the data row
LlVals == {0, 1}

\* the data row: one value for each of the columns 1..3
LlData == [1..3 -> LlVals]

\* a parameter callback cond_f: absent, returning both "mean" and "std", or
\* returning a dictionary that lacks "mean"
NoCondF == [kind |-> "none", base |-> 0]
FullCondF(b) == [kind |-> "full", base |-> b]
PartialCondF == [kind |-> "partial", base |-> 0]

\* the values a parameter source with base b gives to n nodes
LlMeans(b, n) == [i \in 1..n |-> b + i]
LlStds(n) == [i \in 1..n |-> i]

\* dispatch_ctx.args[module]: nothing, parameter values, or a cond_f
NoArgs == [kind |-> "absent", mean |-> <<>>, std |-> <<>>, cond_f |-> NoCondF]
ValueArgs(mean, std) == [kind |-> "values", mean |-> mean, std |-> std, cond_f |-> NoCondF]
CondFArgs(f) == [kind |-> "cond_f", mean |-> <<>>, std |-> <<>>, cond_f |-> f]

NoMod == [kind |-> "none", n_out |-> 0, col |-> 0, cond_f |-> NoCondF, partitions |-> <<>>]
LlLeaf(n, col, f) ==
    [kind |-> "leaf", n_out |-> n, col |-> col, cond_f |-> f, partitions |-> <<>>]
LlHadamard(parts) ==
    [kind |-> "hadamard", n_out |-> 0, col |-> 0, cond_f |-> NoCondF, partitions |-> parts]

\* circuit: a Hadamard layer (3) over two conditional leaf layers (1, 2)
LlPair(n1, n2, f1) ==
    [m \in LlIds |->
        CASE m = 1 -> LlLeaf(n1, 1, f1)
          [] m = 2 -> LlLeaf(n2, 2, FullCondF(6))
          [] m = 3 -> LlHadamard(<< <<1>>, <<2>> >>)
          [] OTHER -> NoMod]

\* circuit: a Hadamard layer (7) whose first partition holds two Hadamard
\* layers (4, 5) that share the conditional leaf layer 1
LlDiamond(k, f1) ==
    [m \in LlIds |->
        CASE m = 1 -> LlLeaf(1, 1, f1)
          [] m = 2 -> LlLeaf(1, 2, FullCondF(6))
          [] m = 3 -> LlLeaf(1, 2, FullCondF(8))
          [] m = 4 -> LlHadamard(<< <<1>>, <<2>> >>)
          [] m = 5 -> LlHadamard(<< <<1>>, <<3>> >>)
          [] m = 6 -> LlLeaf(k, 3, FullCondF(10))
          [] OTHER -> LlHadamard(<< <<4, 5>>, <<6>> >>)]

LlOwnCondFs == {NoCondF, FullCondF(4), PartialCondF}

LlNets ==
    {LlPair(n1, n2, f) : n1 \in {1, MaxSlots}, n2 \in {1, MaxSlots}, f \in LlOwnCondFs}
    \cup {LlDiamond(k, f) : k \in {1, 2}, f \in LlOwnCondFs}

NoNet == [m \in LlIds |-> NoMod]

RECURSIVE SumSeq(_)
SumSeq(s) == IF s = <<>> THEN 0 ELSE Head(s) + SumSeq(Tail(s))

RECURSIVE Flatten(_)
Flatten(ss) == IF ss = <<>> THEN <<>> ELSE Head(ss) \o Flatten(Tail(ss))

\* number of outputs of module m
RECURSIVE LlNOut(_, _)
LlNOut(net, m) ==
    IF net[m].kind = "leaf" THEN net[m].n_out
    ELSE LET sizes == [p \in 1..Len(net[m].partitions) |->
                         SumSeq([c \in 1..Len(net[m].partitions[p]) |->
                                    LlNOut(net, net[m].partitions[p][c])])]
         IN  CHOOSE n \in Range(sizes) : \A k \in Range(sizes) : k <= n

\* a value that is not there (no cache entry, no return value)
NoVal == [has |-> FALSE, v |-> <<>>]
Val(v) == [has |-> TRUE, v |-> v]

\* DispatchContext(): empty cache, no args. evals and cond_calls count, up to
\* two, how often the body of log_likelihood ran for a module and how often
\* the cond_f of a leaf layer was invoked since the context was created;
\* raised tells whether a call with the context has raised
NewCtx ==
    [cache |-> [m \in LlIds |-> NoVal],
     args |-> [m \in LlIds |-> NoArgs],
     node_args |-> [m \in LlIds |-> <<>>],
     evals |-> [m \in LlIds |-> 0],
     cond_calls |-> [m \in LlIds |-> 0],
     raised |-> FALSE,
     err |-> "none",
     ret |-> NoVal]

Bump(c) == IF c < 2 THEN c + 1 ELSE 2

\* log-density of a Gaussian node at x, up to scale: decreasing in the
\* distance of x from the mean and in the standard deviation
LeafLL(mean, std, x) == 0 - ((x - mean) * (x - mean) + std)

\* layer.retrieve_params(data, dispatch_ctx): the values in the args of the
\* context, else the cond_f in those args, else the cond_f of the layer
LlRetrieveParams(net, m, st) ==
    LET a == st.args[m]
        n == net[m].n_out
        f == IF a.kind = "cond_f" THEN a.cond_f ELSE net[m].cond_f
    IN  IF a.kind = "values"
        THEN [err |-> "none", called |-> FALSE, mean |-> a.mean, std |-> a.std]
        ELSE IF f.kind = "none"
        THEN [err |-> "ValueError", called |-> FALSE, mean |-> <<>>, std |-> <<>>]
        ELSE IF f.kind = "partial"
        THEN [err |-> "KeyError", called |-> TRUE, mean |-> <<>>, std |-> <<>>]
        ELSE [err |-> "none", called |-> TRUE, mean |-> LlMeans(f.base, n),
              std |-> LlStds(n)]

\* mutant of LlZipParams: the nodes are paired with the values in reverse
LlZipParamsReversed(n, mean, std) ==
    [i \in 1..n |-> [mean |-> mean[n + 1 - i], std |-> std[n + 1 - i]]]

\* cond_gaussian.py, lines 64-65: node i is given the i-th mean and std
LlZipParams(n, mean, std) ==
    [i \in 1..n |-> [mean |-> mean[i], std |-> std[i]]]

\* cond_gaussian.py, lines 58-79: log_likelihood of a conditional leaf layer
LlLeafBody(net, m, x, st) ==
    LET r == LlRetrieveParams(net, m, st)
        s1 == [st EXCEPT !.evals[m] = Bump(@),
                         !.cond_calls[m] = IF r.called THEN Bump(@) ELSE @]
        na == LlZipParams(net[m].n_out, r.mean, r.std)
    IN  IF r.err # "none" THEN [s1 EXCEPT !.err = r.err, !.raised = TRUE, !.ret = NoVal]
        ELSE [s1 EXCEPT !.node_args[m] = na,
                        !.ret = Val([i \in 1..net[m].n_out |->
                                        LeafLL(na[i].mean, na[i].std, x[net[m].col])])]

\* mutant of LlChildCtx: the children are evaluated in a fresh context
LlChildCtxFresh(st) ==
    [st EXCEPT !.cache = NewCtx.cache, !.node_args = NewCtx.node_args]

\* hadamard_layer.py, line 53: dispatch_ctx=dispatch_ctx, the context of the
\* layer is handed to every child
LlChildCtx(st) == st

\* mutant of LlConcat: the blocks are concatenated in reverse order
LlConcatReversed(lls) ==
    Flatten([i \in 1..Len(lls) |-> lls[Len(lls) + 1 - i]])

\* hadamard_layer.py, lines 47-58: np.concatenate([...], axis=1)
LlConcat(lls) == Flatten(lls)

\* HadamardLayer: the input slot of partition p that output i reads, among
\* the slots of all partitions in order; a partition of one slot is broadcast
LlInputId(sizes, p, i) ==
    SumSeq(SubSeq(sizes, 1, p - 1)) + (IF sizes[p] = 1 THEN 1 ELSE i)

\* hadamard_layer.py, lines 66-77: log_likelihood of the internal product
\* nodes, each the sum of the placeholder values of its input slots
LlNodeLLs(sizes, n_out, child_lls) ==
    [i \in 1..n_out |->
        SumSeq([p \in 1..Len(sizes) |-> child_lls[LlInputId(sizes, p, i)]])]

RECURSIVE LlDispatch(_, _, _, _)
RECURSIVE LlChildLLs(_, _, _, _, _, _)

\* hadamard_layer.py, lines 47-58: the children are evaluated one after the
\* other; acc holds the values returned so far
LlChildLLs(net, children, c, x, st, acc) ==
    IF c > Len(children) \/ st.err # "none"
    THEN [st |-> st, lls |-> acc]
    ELSE LET s1 == LlDispatch(net, children[c], x, LlChildCtx(st))
         IN  LlChildLLs(net, children, c + 1, x, s1, Append(acc, s1.ret.v))

\* hadamard_layer.py, lines 43-77: log_likelihood of a HadamardLayer
LlHadamardBody(net, m, x, st) ==
    LET parts == net[m].partitions
        children == Flatten(parts)
        sizes == [p \in 1..Len(parts) |->
                    SumSeq([c \in 1..Len(parts[p]) |-> LlNOut(net, parts[p][c])])]
        s0 == [st EXCEPT !.evals[m] = Bump(@)]
        r == LlChildLLs(net, children, 1, x, s0, <<>>)
    IN  IF r.st.err # "none" THEN [r.st EXCEPT !.ret = NoVal]
        ELSE [r.st EXCEPT !.ret = Val(LlNodeLLs(sizes, LlNOut(net, m), LlConcat(r.lls)))]

\* @dispatch(memoize=True): the cached value of the module in the context if
\* there is one, else the body is run and its value is stored
LlDispatch(net, m, x, st) ==
    IF st.cache[m].has THEN [st EXCEPT !.ret = st.cache[m]]
    ELSE LET b == IF net[m].kind = "leaf" THEN LlLeafBody(net, m, x, st)
                  ELSE LlHadamardBody(net, m, x, st)
         IN  IF b.err # "none" THEN b ELSE [b EXCEPT !.cache[m] = b.ret]

\* the args the caller puts into the context it creates, for leaf layer 1
LlArgChoices(n) ==
    {NoArgs, ValueArgs(LlMeans(0, n), LlStds(n)), CondFArgs(FullCondF(2)),
     CondFArgs(PartialCondF)}

LlNoCall == [module |-> 0, x |-> [c \in 1..3 |-> 0], explicit |-> FALSE, before |-> NewCtx]

LlIdle ==
    /\ llPc = "idle"
    /\ llNet = NoNet
    /\ llCtx = NewCtx
    /\ llCall = LlNoCall
    /\ llOut = NewCtx

\* the caller builds a circuit
LlSetup ==
    /\ llPc = "idle"
    /\ llNet = NoNet
    /\ \E net \in LlNets : llNet' = net
    /\ UNCHANGED <<llPc, llCtx, llCall, llOut, notLlVars>>

\* dispatch_ctx = DispatchContext(); dispatch_ctx.args[layer1] = ...
LlNewCtx ==
    /\ llPc = "idle"
    /\ llNet # NoNet
    /\ \E a \in LlArgChoices(llNet[1].n_out) :
          llCtx' = [NewCtx EXCEPT !.args[1] = a]
    /\ UNCHANGED <<llPc, llNet, llCall, llOut, notLlVars>>

\* r = log_likelihood(module, data, dispatch_ctx=ctx), with the context the
\* caller holds or without one (init_default_dispatch_context makes a new one)
LlLogLikelihood ==
    /\ llPc = "idle"
    /\ llNet # NoNet
    /\ \E m \in {k \in LlIds : llNet[k].kind # "none"}, x \in LlData, explicit \in BOOLEAN :
          LET ctx == IF explicit THEN llCtx ELSE NewCtx
              r == LlDispatch(llNet, m, x, [ctx EXCEPT !.err = "none", !.ret = NoVal])
          IN  /\ llOut' = r
              /\ llCtx' = IF explicit THEN [r EXCEPT !.err = "none", !.ret = NoVal]
                          ELSE llCtx
              /\ llCall' = [module |-> m, x |-> x, explicit |-> explicit, before |-> ctx]
    /\ llPc' = "returned"
    /\ UNCHANGED <<llNet, notLlVars>>

\* the caller goes on after log_likelihood returned or raised
LlContinue ==
    /\ llPc = "returned"
    /\ llPc' = "idle"
    /\ llCall' = LlNoCall
    /\ llOut' = NewCtx
    /\ UNCHANGED <<llNet, llCtx, notLlVars>>

(***************************************************************************)
(* Geometric leaf: maximum_likelihood_estimation                           *)
(*   src/src/spflow/torch/learning/general/nodes/leaves/parametric/        *)
(*   geometric.py                                                          *)
(* Numbers are exact fractions <<numerator, denominator>>.                 *)
(***************************************************************************)
\* largest number of rows of the data
MleRows == 2

\* a missing value (NaN) in the data column of the leaf
MleNaN == 0 - 1

\* values of the data column: 1 and 2 are in the support of Geometric
\* (integers >= 1), 0 is not
MleVals == {MleNaN, 0, 1, 2}

\* values of the weights
MleWeightVals == {0, 1, 2}

RECURSIVE GCD(_, _)
GCD(a, b) == IF b = 0 THEN a ELSE GCD(b, a % b)

\* the fraction a / b in lowest terms, b > 0
Frac(a, b) == LET g == GCD(a, b) IN <<a \div g, b \div g>>
FracAdd(f, g) == Frac(f[1] * g[2] + g[1] * f[2], f[2] * g[2])
FracMul(f, g) == Frac(f[1] * g[1], f[2] * g[2])
FracDiv(f, g) == Frac(f[1] * g[2], f[2] * g[1])
FracOf(k) == <<k, 1>>

RECURSIVE FracSum(_)
FracSum(s) == IF s = <<>> THEN FracOf(0) ELSE FracAdd(Head(s), FracSum(Tail(s)))

\* lines 146 and 148: the values that replace an estimate close to 0 or to 1
PEpsilon == <<1, 100000000>>
POneMinusEpsilon == <<99999999, 100000000>>

\* the weights argument: None, a one-dimensional tensor, or a tensor of two
\* dimensions
NoWeights == [tag |-> "none", vals |-> <<>>]
WeightVec(w) == [tag |-> "vec", vals |-> w]
WeightMatrix(w) == [tag |-> "matrix", vals |-> w]

\* nan_strategy: None, the string 'ignore', another string, a callable (one
\* that puts 1 where a value is missing), or a value of another type
MleStrategies == {"None", "ignore", "other string", "callable", "number"}

MleIsString(strat) == strat \in {"ignore", "other string"}

\* mutant of MleIsIgnore: every string is taken to be 'ignore'
MleIsIgnoreAnyString(strat) == TRUE

\* line 113: nan_strategy == "ignore"
MleIsIgnore(strat) == strat = "ignore"

\* mutant of MleWeightsBad: the length of the weights is compared with one
\* less than the number of rows
MleWeightsBadOffByOne(w, n) == w.tag # "vec" \/ Len(w.vals) # n - 1

\* line 85: weights.ndim != 1 or weights.shape[0] != data.shape[0]
MleWeightsBad(w, n) == w.tag # "vec" \/ Len(w.vals) # n

\* leaf.check_support(scope_data): a missing value is in the support, the
\* others are if they are integers >= 1
MleInSupport(v) == v = MleNaN \/ v >= 1

\* the rows without a missing value, in order
MleKeep(data) == SelectSeq([i \in 1..Len(data) |-> i], LAMBDA i : data[i] # MleNaN)

\* mutant of MleDropWeights: the first weights are kept, as many as rows remain
MleDropWeightsFirst(weights, data) == SubSeq(weights, 1, Len(MleKeep(data)))

\* line 116: weights = weights[~nan_mask.squeeze(1)]
MleDropWeights(weights, data) ==
    [k \in 1..Len(MleKeep(data)) |-> weights[MleKeep(data)[k]]]

\* line 115: scope_data = scope_data[~nan_mask.squeeze(1)]
MleDropData(data) == [k \in 1..Len(MleKeep(data)) |-> data[MleKeep(data)[k]]]

\* the callable nan_strategy of the model: missing values become 1
MleFill(data) == [i \in 1..Len(data) |-> IF data[i] = MleNaN THEN 1 ELSE data[i]]

\* mutant of MleIsClose: no estimate is taken to be close to 0 or to 1
MleIsCloseNever(f, v) == FALSE

\* torch.isclose(p_est, torch.tensor(v)): the estimates of the model are
\* fractions of small integers, which are close to v only when equal to it
MleIsClose(f, v) == f = FracOf(v)

\* Geometric.set_params(p): p must satisfy 0 < p <= 1
MlePValid(f) == f[1] > 0 /\ f[1] <= f[2]

\* lines 129-151: the estimate from the rows and weights that are used; the
\* result is the error raised, the new p and the normalized weights
MleEstimate(p_old, sd, w, bias_correction) ==
    LET n == Len(sd)
        W == SumSeq(w)
        \* line 130: weights /= weights.sum() / scope_data.shape[0]
        nw == [i \in 1..n |-> Frac(w[i] * n, W)]
        \* lines 133-136
        n_total == FracAdd(FracSum(nw), FracOf(IF bias_correction THEN 0 - 1 ELSE 0))
        \* line 139
        n_trials == FracSum([i \in 1..n |-> FracMul(nw[i], FracOf(sd[i]))])
        p_est == FracDiv(n_total, n_trials)
        p_set == IF MleIsClose(p_est, 0) THEN PEpsilon
                 ELSE IF MleIsClose(p_est, 1) THEN POneMinusEpsilon
                 ELSE p_est
    IN  IF W = 0
        \* the weights become NaN, and so does the estimate, which set_params
        \* rejects
        THEN [err |-> "ValueError", p |-> p_old, nw |-> <<>>, normalized |-> TRUE]
        ELSE IF n_trials = FracOf(0)
        \* line 142 makes p_est the float 1e-8, which torch.isclose (line 145)
        \* does not take
        THEN [err |-> "TypeError", p |-> p_old, nw |-> nw, normalized |-> TRUE]
        ELSE IF ~MlePValid(p_set)
        THEN [err |-> "ValueError", p |-> p_old, nw |-> nw, normalized |-> TRUE]
        ELSE [err |-> "none", p |-> p_set, nw |-> nw, normalized |-> TRUE]

MleRaise(p_old) == [err |-> "ValueError", p |-> p_old, nw |-> <<>>, normalized |-> FALSE]

\* maximum_likelihood_estimation(leaf, data, weights, bias_correction,
\* nan_strategy, check_support), lines 76-151
MleEval(p_old, data, weights, bias_correction, strat, check_support) ==
    LET n == Len(data)
        \* lines 82-83
        w == IF weights.tag = "none" THEN WeightVec([i \in 1..n |-> 1]) ELSE weights
        nan_mask == {i \in 1..n : data[i] = MleNaN}
    IN  IF MleWeightsBad(w, n) THEN MleRaise(p_old)
        ELSE IF check_support /\ \E i \in 1..n : ~MleInSupport(data[i]) THEN MleRaise(p_old)
        ELSE IF nan_mask = 1..n THEN MleRaise(p_old)
        ELSE IF strat = "None" /\ nan_mask # {} THEN MleRaise(p_old)
        ELSE IF MleIsString(strat)
        THEN IF MleIsIgnore(strat)
             THEN MleEstimate(p_old, MleDropData(data), MleDropWeights(w.vals, data),
                              bias_correction)
             ELSE MleRaise(p_old)
        ELSE IF strat = "callable"
        THEN MleEstimate(p_old, MleFill(data), w.vals, bias_correction)
        ELSE IF strat # "None" THEN MleRaise(p_old)
        ELSE MleEstimate(p_old, data, w.vals, bias_correction)

\* @dispatch(memoize=True): the body runs unless the context holds a result
\* of the operation for the leaf
MleDispatch(cached, p_old, data, weights, bias_correction, strat, check_support) ==
    IF cached THEN [err |-> "none", p |-> p_old, nw |-> <<>>, normalized |-> FALSE]
    ELSE MleEval(p_old, data, weights, bias_correction, strat, check_support)

MleDataArgs == SeqsOf(MleVals, 0, MleRows)

\* weights for n rows: None, a vector of n weights, a vector with one weight
\* less or more, and a tensor of two dimensions
MleWeightArgs(n) ==
    {NoWeights, WeightMatrix([i \in 1..n |-> 1]),
     WeightVec([i \in 1..(n + 1) |-> 1])}
    \cup {WeightVec(w) : w \in SeqsOf(MleWeightVals, n, n)}
    \cup (IF n > 0 THEN {WeightVec([i \in 1..(n - 1) |-> 1])} ELSE {})

MleNoCall == [data |-> <<>>, weights |-> NoWeights, bias_correction |-> FALSE,
              nan_strategy |-> "None", check_support |-> FALSE, before |-> <<0, 1>>]

MleNoOut == [err |-> "none", nw |-> <<>>, normalized |-> FALSE]

\* leaf = Geometric(Scope([0]), p=0.5)
MleIdle ==
    /\ mlePc = "idle"
    /\ mleLeaf = [p |-> <<1, 2>>]
    /\ mleCall = MleNoCall
    /\ mleOut = MleNoOut

\* maximum_likelihood_estimation(leaf, data, weights, bias_correction,
\* nan_strategy, check_support), called without a dispatch context:
\* init_default_dispatch_context (line 77) makes a new, empty one
MleCallMLE ==
    /\ mlePc = "idle"
    /\ \E data \in MleDataArgs, strat \in MleStrategies,
          bias_correction \in BOOLEAN, check_support \in BOOLEAN :
         \E weights \in MleWeightArgs(Len(data)) :
            LET r == MleDispatch(FALSE, mleLeaf.p, data, weights, bias_correction,
                                 strat, check_support)
            IN  /\ mleLeaf' = [p |-> r.p]
                /\ mleOut' = [err |-> r.err, nw |-> r.nw, normalized |-> r.normalized]
                /\ mleCall' = [data |-> data, weights |-> weights,
                               bias_correction |-> bias_correction,
                               nan_strategy |-> strat, check_support |-> check_support,
                               before |-> mleLeaf.p]
    /\ mlePc' = "returned"
    /\ UNCHANGED notMleVars

\* the caller goes on after the estimation returned or raised
MleContinue ==
    /\ mlePc = "returned"
    /\ mlePc' = "idle"
    /\ mleCall' = MleNoCall
    /\ mleOut' = MleNoOut
    /\ UNCHANGED <<mleLeaf, notMleVars>>

(***************************************************************************)
(* GaussianLayer: maximum_likelihood_estimation                            *)
(* spflow/tensorly/learning/general/layers/leaves/parametric/gaussian.py   *)
(***************************************************************************)
\* largest number of nodes of the layer, and number of rows of the data
MaxGsNodes == 2
GsRows == 2

\* the random variables a node can be over; the data has one column for each
GsVars == {0, 1}

\* a missing value (NaN) and an infinite value, which is outside the support
GsNaN == 0 - 1
GsInf == 0 - 2

\* values of the data
GsVals == {GsNaN, GsInf, 0, 1}

\* the std a node gets when the estimated std is 0 or NaN (1e-8), and a std
\* given by its square, a fraction
GsEpsStd == [eps |-> TRUE, sq |-> <<0, 1>>]
GsStdOfSquare(v) == [eps |-> FALSE, sq |-> v]

\* a Gaussian node of the layer as it is constructed: mean 0, std 1
GsNode(v) == [var |-> v, mean |-> FracOf(0), std |-> GsStdOfSquare(FracOf(1))]

\* weights=None, a one-dimensional and a two-dimensional weights array
\* (v holds the entries of a vector, w the rows of a matrix)
GsNoWeights == [ndim |-> 0, rows |-> 0, cols |-> 0, v |-> <<>>, w |-> <<>>]
GsWeightVec(s) == [ndim |-> 1, rows |-> Len(s), cols |-> 0, v |-> s, w |-> <<>>]
GsWeightMatrix(rows, cols, f) ==
    [ndim |-> 2, rows |-> rows, cols |-> cols, v |-> <<>>,
     w |-> [r \in 1..rows |-> [c \in 1..cols |-> f[r, c]]]]

\* lines 84-85: weights = tl.ones((rows, n_out)) when weights is None
GsDefaultWeights(rows, n_out, weights) ==
    IF weights.ndim = 0
    THEN GsWeightMatrix(rows, n_out, [r \in 1..rows, c \in 1..n_out |-> 1])
    ELSE weights

\* lines 87-91: the shape of the weights does not fit the data and the layer
GsWeightsBad(rows, n_out, weights) ==
    \/ weights.ndim = 1 /\ weights.rows # rows
    \/ weights.ndim = 2 /\ (weights.rows # rows \/ weights.cols # n_out)
    \/ weights.ndim \notin {1, 2}

\* lines 96-98: a one-dimensional array is repeated for every node
GsBroadcast(n_out, weights) ==
    IF weights.ndim = 1
    THEN GsWeightMatrix(weights.rows, n_out,
                        [r \in 1..weights.rows, c \in 1..n_out |-> weights.v[r]])
    ELSE weights

\* line 100: weights.T, the column of node c
GsNodeWeights(weights, c) == [r \in 1..weights.rows |-> weights.w[r][c]]

\* the rows of the column that stay: all of them, or under "ignore" those
\* that are not NaN
GsKeep(col, nan_strategy) ==
    {r \in 1..Len(col) : nan_strategy # "ignore" \/ col[r] # GsNaN}

\* the sum of f[r] over the rows of S
RECURSIVE GsSumOver(_, _)
GsSumOver(S, f) ==
    IF S = {} THEN FracOf(0)
    ELSE LET r == CHOOSE x \in S : TRUE
         IN  FracAdd(f[r], GsSumOver(S \ {r}, f))

\* the estimate of the node for the kept rows: the weights are rescaled to
\* sum to the number of rows, mean = sum(w * x) / n and
\* std^2 = sum(w * (x - mean)^2) / n_total; a std of 0 or NaN becomes 1e-8
GsEstimate(col, w, keep, bias_correction) ==
    LET n       == Cardinality(keep)
        W       == GsSumOver(keep, [r \in keep |-> FracOf(w[r])])
        scaled  == [r \in keep |-> FracDiv(FracOf(w[r] * n), W)]
        mean    == FracDiv(GsSumOver(keep, [r \in keep |->
                               FracMul(scaled[r], FracOf(col[r]))]), FracOf(n))
        n_total == IF bias_correction THEN n - 1 ELSE n
        dev(r)  == FracAdd(FracOf(col[r]), <<0 - mean[1], mean[2]>>)
        sq      == GsSumOver(keep, [r \in keep |->
                               FracMul(scaled[r], FracMul(dev(r), dev(r)))])
    IN  [mean |-> mean,
         std  |-> IF n_total = 0 \/ sq[1] = 0 THEN GsEpsStd
                  ELSE GsStdOfSquare(FracDiv(sq, FracOf(n_total)))]

\* maximum_likelihood_estimation of one Gaussian node: it raises for a value
\* outside the support, a column of NaN only, a NaN without a strategy, and
\* an estimate that is not finite (an infinite value that was not checked,
\* weights that sum to 0); otherwise it sets the node's mean and std
GsNodeMLE(node, data, w, bias_correction, nan_strategy, check_support) ==
    LET col  == [r \in 1..Len(data) |-> data[r][node.var]]
        keep == GsKeep(col, nan_strategy)
        Raise(e) == [err |-> e, node |-> node]
    IN  IF check_support /\ \E r \in 1..Len(col) : col[r] = GsInf
        THEN Raise("ValueError")
        ELSE IF \A r \in 1..Len(col) : col[r] = GsNaN
        THEN Raise("ValueError")
        ELSE IF nan_strategy = "None" /\ \E r \in 1..Len(col) : col[r] = GsNaN
        THEN Raise("ValueError")
        ELSE IF \E r \in keep : col[r] = GsInf
        THEN Raise("ValueError")
        ELSE IF \A r \in keep : w[r] = 0
        THEN Raise("ValueError")
        ELSE LET e == GsEstimate(col, w, keep, bias_correction)
             IN  [err |-> "none", node |-> [node EXCEPT !.mean = e.mean, !.std = e.std]]

\* lines 100-109: the estimation of node i and of the nodes after it, one
\* after the other; an exception of a node ends the loop and leaves the
\* nodes before it updated
RECURSIVE GsLoop(_, _, _, _, _, _, _)
GsLoop(nodes, i, data, weights, bias_correction, nan_strategy, check_support) ==
    IF i > Len(nodes) THEN [err |-> "none", nodes |-> nodes]
    ELSE LET r == GsNodeMLE(nodes[i], data, GsNodeWeights(weights, i),
                            bias_correction, nan_strategy, check_support)
         IN  IF r.err # "none" THEN [err |-> r.err, nodes |-> nodes]
             ELSE GsLoop([nodes EXCEPT ![i] = r.node], i + 1, data, weights,
                         bias_correction, nan_strategy, check_support)

\* maximum_likelihood_estimation(layer, data, weights, ...), lines 82-109
GsLayerMLE(nodes, data, weights, bias_correction, nan_strategy, check_support) ==
    LET w == GsDefaultWeights(Len(data), Len(nodes), weights)
    IN  IF GsWeightsBad(Len(data), Len(nodes), w)
        THEN [err |-> "ValueError", nodes |-> nodes]
        ELSE GsLoop(nodes, 1, data, GsBroadcast(Len(nodes), w),
                    bias_correction, nan_strategy, check_support)

\* the data arrays of the calls: GsRows rows, one column for every variable
GsDataArgs == [1..GsRows -> [GsVars -> GsVals]]

\* the weights of the calls: None, vectors of the right length and one that
\* is too long, matrices with one column of zeros or none, and a matrix with
\* a column too many
GsWeightArgs(rows, n_out) ==
    {GsNoWeights}
    \cup {GsWeightVec(s) : s \in [1..rows -> {0, 1}]}
    \cup {GsWeightVec([r \in 1..(rows + 1) |-> 1])}
    \cup {GsWeightMatrix(rows, n_out, [r \in 1..rows, c \in 1..n_out |->
                                         IF c = k THEN 0 ELSE 1]) : k \in 0..n_out}
    \cup {GsWeightMatrix(rows, n_out + 1, [r \in 1..rows, c \in 1..(n_out + 1) |-> 1])}

\* the layers the caller builds: scopes in ascending order of the variable
GsLayers ==
    {s \in SeqsOf(GsVars, 1, MaxGsNodes) : \A i \in 1..(Len(s) - 1) : s[i] <= s[i + 1]}

GsNoCall == [data |-> <<>>, weights |-> GsNoWeights, bias_correction |-> FALSE,
             nan_strategy |-> "None", check_support |-> FALSE, before |-> <<>>]

GsIdle ==
    /\ gsPc = "idle"
    /\ gsLayer = <<>>
    /\ gsCall = GsNoCall
    /\ gsOut = "none"

\* GaussianLayer(scope=[...]): one node per scope
GsConstruct ==
    /\ gsPc = "idle"
    /\ gsLayer = <<>>
    /\ \E s \in GsLayers : gsLayer' = [i \in 1..Len(s) |-> GsNode(s[i])]
    /\ UNCHANGED <<gsPc, gsCall, gsOut, notGsVars>>

\* maximum_likelihood_estimation(layer, data, weights, bias_correction,
\* nan_strategy, check_support), called without a dispatch context
GsCallMLE ==
    /\ gsPc = "idle"
    /\ gsLayer # <<>>
    /\ \E data \in GsDataArgs, bias_correction \in BOOLEAN,
          nan_strategy \in {"None", "ignore"}, check_support \in BOOLEAN :
         \E weights \in GsWeightArgs(Len(data), Len(gsLayer)) :
            LET r == GsLayerMLE(gsLayer, data, weights, bias_correction,
                                nan_strategy, check_support)
            IN  /\ gsLayer' = r.nodes
                /\ gsOut' = r.err
                /\ gsCall' = [data |-> data, weights |-> weights,
                              bias_correction |-> bias_correction,
                              nan_strategy |-> nan_strategy,
                              check_support |-> check_support, before |-> gsLayer]
    /\ gsPc' = "returned"
    /\ UNCHANGED notGsVars

\* the caller looks at the layer and drops it
GsContinue ==
    /\ gsPc = "returned"
    /\ gsPc' = "idle"
    /\ gsLayer' = <<>>
    /\ gsCall' = GsNoCall
    /\ gsOut' = "none"
    /\ UNCHANGED notGsVars

(***************************************************************************)
(* Geometric leaf: em                                                      *)
(*   src/src/spflow/torch/learning/general/nodes/leaves/parametric/        *)
(*   geometric.py, lines 154-198                                           *)
(***************************************************************************)
\* largest number of rows of the data and of the cached log-likelihood
EmRows == 2

\* values of the gradient of a row: the unnormalized expectation
EmGradVals == {0, 1, 2}

\* a number that is not one: 0 / 0
FracNaN == <<0, 0>>

\* dispatch_ctx.cache["log_likelihood"][leaf]: no entry, or a tensor with its
\* attribute grad, which is None until a backward pass has set it
EmNoLL == [has |-> FALSE, has_grad |-> FALSE, grad |-> <<>>]
EmLL(n) == [has |-> TRUE, has_grad |-> FALSE, grad |-> [i \in 1..n |-> FracOf(0)]]

\* DispatchContext(): empty caches for log_likelihood,
\* maximum_likelihood_estimation and em; held is FALSE while the caller has
\* no context
EmNoCtx == [held |-> FALSE, ll |-> EmNoLL, mle |-> FALSE, em |-> FALSE]
EmFreshCtx == [held |-> TRUE, ll |-> EmNoLL, mle |-> FALSE, em |-> FALSE]

\* init_default_dispatch_context(dispatch_ctx), lines 77 and 174: the given
\* context, or a new empty one when it is None
EmInitDefaultCtx(ctx) == IF ctx.held THEN ctx ELSE EmFreshCtx

\* mutant of EmNormalize: the expectations are squared before they are
\* normalized
EmNormalizeSquared(grad) ==
    LET sq == [i \in 1..Len(grad) |-> FracMul(grad[i], grad[i])]
        G  == FracSum(sq)
    IN  IF (\E i \in 1..Len(grad) : grad[i] = FracNaN) \/ G[1] = 0
        THEN [i \in 1..Len(grad) |-> FracNaN]
        ELSE [i \in 1..Len(grad) |-> FracDiv(sq[i], G)]

\* line 180: expectations /= expectations.sum()
EmNormalize(grad) ==
    LET G == FracSum(grad)
    IN  IF (\E i \in 1..Len(grad) : grad[i] = FracNaN) \/ G[1] = 0
        THEN [i \in 1..Len(grad) |-> FracNaN]
        ELSE [i \in 1..Len(grad) |-> FracDiv(grad[i], G)]

\* lines 129-151 for the weights em passes (fractions), bias_correction=False:
\* the error raised, the new p and the weights after line 130
EmEstimate(p_old, sd, w) ==
    LET n == Len(sd)
        W == FracSum(w)
        \* line 130: weights /= weights.sum() / scope_data.shape[0]
        nw == [i \in 1..n |-> FracDiv(w[i], FracDiv(W, FracOf(n)))]
        \* lines 133-136, bias_correction is False
        n_total == FracSum(nw)
        \* line 139
        n_trials == FracSum([i \in 1..n |-> FracMul(nw[i], FracOf(sd[i]))])
        p_est == FracDiv(n_total, n_trials)
        p_set == IF MleIsClose(p_est, 0) THEN PEpsilon
                 ELSE IF MleIsClose(p_est, 1) THEN POneMinusEpsilon
                 ELSE p_est
    IN  IF w[1] = FracNaN
        \* the weights are NaN, and so is the estimate, which set_params rejects
        THEN [err |-> "ValueError", p |-> p_old, nw |-> w]
        ELSE IF n_trials = FracOf(0)
        \* line 142 makes p_est the float 1e-8, which torch.isclose (line 145)
        \* does not take
        THEN [err |-> "TypeError", p |-> p_old, nw |-> nw]
        ELSE IF ~MlePValid(p_set)
        THEN [err |-> "ValueError", p |-> p_old, nw |-> nw]
        ELSE [err |-> "none", p |-> p_set, nw |-> nw]

\* maximum_likelihood_estimation(leaf, data, weights=expectations.squeeze(1),
\* bias_correction=False, check_support=check_support), lines 76-151 with
\* nan_strategy None: the weights are a view of the cached gradient, which
\* line 130 rescales in place
EmMleEval(p_old, data, w, check_support) ==
    LET n == Len(data)
        Raise == [err |-> "ValueError", p |-> p_old, nw |-> w]
    IN  IF Len(w) # n THEN Raise
        ELSE IF check_support /\ \E i \in 1..n : ~MleInSupport(data[i]) THEN Raise
        ELSE IF \E i \in 1..n : data[i] = MleNaN THEN Raise
        ELSE EmEstimate(p_old, data, w)

\* em(leaf, data, check_support, dispatch_ctx), lines 154-198, under
\* @dispatch(memoize=True): the error raised, the new p and the context
\* after the call
EmEval(p_old, ctxArg, data, check_support) ==
    LET ctx == EmInitDefaultCtx(ctxArg)
        Raise(e, c) == [err |-> e, p |-> p_old, ctx |-> c, fitted |-> FALSE]
    IN  IF ctx.em THEN [err |-> "none", p |-> p_old, ctx |-> ctx, fitted |-> FALSE]
        \* line 178
        ELSE IF ~ctx.ll.has THEN Raise("KeyError", ctx)
        \* line 180 on a gradient that is None
        ELSE IF ~ctx.ll.has_grad THEN Raise("AttributeError", ctx)
        ELSE LET expectations == EmNormalize(ctx.ll.grad)
                 c1 == [ctx EXCEPT !.ll.grad = expectations]
             IN  IF ctx.mle
                 \* the estimation is memoized for the leaf in this context
                 THEN [err |-> "none", p |-> p_old, ctx |-> [c1 EXCEPT !.em = TRUE],
                       fitted |-> FALSE]
                 ELSE LET r  == EmMleEval(p_old, data, expectations, check_support)
                          c2 == [c1 EXCEPT !.ll.grad = r.nw]
                      IN  IF r.err # "none" THEN Raise(r.err, c2)
                          ELSE [err |-> "none", p |-> r.p,
                                ctx |-> [c2 EXCEPT !.mle = TRUE, !.em = TRUE],
                                fitted |-> TRUE]

\* the data of the calls: a column of 1 to EmRows values
EmDataArgs == SeqsOf(MleVals, 1, EmRows)

EmNoCall == [op |-> "none", data |-> <<>>, check_support |-> FALSE, with_ctx |-> FALSE,
             before |-> <<0, 1>>, ctx_before |-> EmNoCtx]

\* leaf = Geometric(Scope([0]), p=0.5); the caller holds no context
EmIdle ==
    /\ emPc = "idle"
    /\ emLeaf = [p |-> <<1, 2>>]
    /\ emCtx = EmNoCtx
    /\ emCall = EmNoCall
    /\ emOut = [err |-> "none", fitted |-> FALSE]

\* dispatch_ctx = DispatchContext()
EmNewCtx ==
    /\ emPc = "idle"
    /\ emCtx # EmFreshCtx
    /\ emCtx' = EmFreshCtx
    /\ UNCHANGED <<emPc, emLeaf, emCall, emOut, notEmVars>>

\* ll = log_likelihood(leaf, data, dispatch_ctx=dispatch_ctx) on data of n rows
\* in the support: the memoized result is stored in the context
EmLogLikelihood ==
    /\ emPc = "idle"
    /\ emCtx.held
    /\ ~emCtx.ll.has
    /\ \E n \in 1..EmRows : emCtx' = [emCtx EXCEPT !.ll = EmLL(n)]
    /\ UNCHANGED <<emPc, emLeaf, emCall, emOut, notEmVars>>

\* ll.retain_grad(); (a function of ll).sum().backward(): every row of the
\* cached log-likelihood gets its gradient
EmBackward ==
    /\ emPc = "idle"
    /\ emCtx.ll.has
    /\ ~emCtx.ll.has_grad
    /\ \E g \in [1..Len(emCtx.ll.grad) -> EmGradVals] :
          emCtx' = [emCtx EXCEPT !.ll.has_grad = TRUE,
                                 !.ll.grad = [i \in 1..Len(g) |-> FracOf(g[i])]]
    /\ UNCHANGED <<emPc, emLeaf, emCall, emOut, notEmVars>>

\* em(leaf, data, check_support, dispatch_ctx): with the context the caller
\* holds, or with dispatch_ctx=None
EmCallEm ==
    /\ emPc = "idle"
    /\ \E data \in EmDataArgs, check_support \in BOOLEAN, with_ctx \in BOOLEAN :
          /\ with_ctx => emCtx.held
          /\ LET r == EmEval(emLeaf.p, IF with_ctx THEN emCtx ELSE EmNoCtx,
                             data, check_support)
             IN  /\ emLeaf' = [p |-> r.p]
                 /\ emCtx' = IF with_ctx THEN r.ctx ELSE emCtx
                 /\ emOut' = [err |-> r.err, fitted |-> r.fitted]
                 /\ emCall' = [op |-> "em", data |-> data, check_support |-> check_support,
                               with_ctx |-> with_ctx, before |-> emLeaf.p,
                               ctx_before |-> emCtx]
    /\ emPc' = "returned"
    /\ UNCHANGED notEmVars

\* mutant of EmCallMLE: the call never finds a memoized result
EmCallMLEUnmemoized ==
    /\ emPc = "idle"
    /\ \E data \in EmDataArgs, check_support \in BOOLEAN, with_ctx \in BOOLEAN :
          /\ with_ctx => emCtx.held
          /\ LET cached == FALSE
                 r == MleDispatch(cached, emLeaf.p, data, NoWeights, TRUE, "None",
                                  check_support)
             IN  /\ emLeaf' = [p |-> r.p]
                 /\ emCtx' = IF with_ctx
                             THEN [emCtx EXCEPT !.mle = emCtx.mle \/ r.err = "none"]
                             ELSE emCtx
                 /\ emOut' = [err |-> r.err, fitted |-> ~cached /\ r.err = "none"]
                 /\ emCall' = [op |-> "mle", data |-> data, check_support |-> check_support,
                               with_ctx |-> with_ctx, before |-> emLeaf.p,
                               ctx_before |-> emCtx]
    /\ emPc' = "returned"
    /\ UNCHANGED notEmVars

\* maximum_likelihood_estimation(leaf, data, dispatch_ctx=dispatch_ctx) with
\* the context the caller holds, where the memoized call stores its result,
\* or with dispatch_ctx=None
EmCallMLE ==
    /\ emPc = "idle"
    /\ \E data \in EmDataArgs, check_support \in BOOLEAN, with_ctx \in BOOLEAN :
          /\ with_ctx => emCtx.held
          /\ LET cached == with_ctx /\ emCtx.mle
                 r == MleDispatch(cached, emLeaf.p, data, NoWeights, TRUE, "None",
                                  check_support)
             IN  /\ emLeaf' = [p |-> r.p]
                 /\ emCtx' = IF with_ctx
                             THEN [emCtx EXCEPT !.mle = emCtx.mle \/ r.err = "none"]
                             ELSE emCtx
                 /\ emOut' = [err |-> r.err, fitted |-> ~cached /\ r.err = "none"]
                 /\ emCall' = [op |-> "mle", data |-> data, check_support |-> check_support,
                               with_ctx |-> with_ctx, before |-> emLeaf.p,
                               ctx_before |-> emCtx]
    /\ emPc' = "returned"
    /\ UNCHANGED notEmVars

\* the caller goes on after the call returned or raised
EmContinue ==
    /\ emPc = "returned"
    /\ emPc' = "idle"
    /\ emCall' = EmNoCall
    /\ emOut' = [err |-> "none", fitted |-> FALSE]
    /\ UNCHANGED <<emLeaf, emCtx, notEmVars>>

(***************************************************************************)
(* GeneralGaussian: selection of the backend                               *)
(*   src/src/spflow/tensorly/structure/general/nodes/leaves/parametric/    *)
(*   general_gaussian.py                                                   *)
(***************************************************************************)
\* the backends tl.get_backend() can name: the two that GeneralGaussian
\* knows and another one
GgBackends == {"numpy", "pytorch", "tensorflow"}

\* the operations of GeneralGaussian
GgOps == {"new", "accepts", "from_signatures", "dist", "set_params", "get_params",
          "check_support"}

\* the operations that take no instance: __new__ and the class methods
GgClassOps == {"new", "accepts", "from_signatures"}

\* values of the arguments mean and std
GgMeans == {0, 1}
GgStds == {1, 2}

\* a value an operation returns: nothing, an instance of a concrete class, a
\* boolean, a pair of parameters, a distribution object, a boolean array, or
\* the property object that is the class attribute dist
GgValue(kind, cls, mean, std, b) ==
    [kind |-> kind, cls |-> cls, mean |-> mean, std |-> std, b |-> b]
GgNone == GgValue("None", "", 0, 0, FALSE)
GgInstance(cls, mean, std) == GgValue("instance", cls, mean, std, FALSE)
GgBool(b) == GgValue("bool", "", 0, 0, b)
GgParams(mean, std) == GgValue("params", "", mean, std, FALSE)
GgDist(cls, mean, std) == GgValue("dist", cls, mean, std, FALSE)
GgMask(cls, b) == GgValue("mask", cls, 0, 0, b)
GgProperty(cls) == GgValue("property", cls, 0, 0, FALSE)

\* the outcome of an operation: the exception raised, the value returned, the
\* concrete class whose operation ran, and the instance after the call
GgOutcome(err, val, ran, obj) == [err |-> err, val |-> val, ran |-> ran, obj |-> obj]

\* the arguments: mean and std, a signature list that is (or is not) one
\* Gaussian feature, and data that is (or is not) in the support
GgArgs == [mean : GgMeans, std : GgStds, flag : BOOLEAN]

\* the operation op of the concrete class cls, applied to the instance self
GgConcrete(cls, op, self, a) ==
    CASE op = "new" -> GgOutcome("none", GgInstance(cls, a.mean, a.std), cls, self)
      [] op = "accepts" -> GgOutcome("none", GgBool(a.flag), cls, self)
      [] op = "from_signatures" ->
            IF a.flag THEN GgOutcome("none", GgInstance(cls, 0, 1), cls, self)
            ELSE GgOutcome("ValueError", GgNone, cls, self)
      [] op = "dist" -> GgOutcome("none", GgDist(cls, self.mean, self.std), cls, self)
      [] op = "set_params" ->
            GgOutcome("none", GgNone, cls, GgInstance(self.cls, a.mean, a.std))
      [] op = "get_params" -> GgOutcome("none", GgParams(self.mean, self.std), cls, self)
      [] OTHER -> GgOutcome("none", GgMask(cls, a.flag), cls, self)

\* cls.op(...) written without an instance: a method that needs self raises
\* TypeError before it runs
GgWithoutInstance(cls, op, self, a) ==
    IF op \in GgClassOps THEN GgConcrete(cls, op, self, a)
    ELSE GgOutcome("TypeError", GgNone, "", self)

\* the if / elif / else of every operation: the concrete class of the
\* active backend, or none
GgSelect(backend) ==
    IF backend = "numpy" THEN "TensorlyGaussian"
    ELSE IF backend = "pytorch" THEN "TorchGaussian"
    ELSE ""

\* GeneralGaussian.op, lines 13-78
GgEval(backend, op, self, a) ==
    LET cls == GgSelect(backend)
    IN  IF cls = "" THEN GgOutcome("NotImplementedError", GgNone, "", self)
        \* lines 44-52: dist returns the attribute of the class, a property
        ELSE IF op = "dist" THEN GgOutcome("none", GgProperty(cls), "", self)
        \* lines 54-58: under numpy the result of set_params is not returned
        ELSE IF op = "set_params" /\ backend = "numpy"
        THEN [GgWithoutInstance(cls, op, self, a) EXCEPT !.val = GgNone]
        ELSE GgWithoutInstance(cls, op, self, a)

GgNoCall == [op |-> "none", args |-> [mean |-> 0, std |-> 1, flag |-> FALSE],
             backend |-> "numpy", before |-> GgNone]

GgIdle ==
    /\ ggPc = "idle"
    /\ ggBackend = "numpy"
    /\ ggObj = GgNone
    /\ ggCall = GgNoCall
    /\ ggOut = GgOutcome("none", GgNone, "", GgNone)

\* tl.set_backend(b)
GgSetBackend ==
    /\ ggPc = "idle"
    /\ \E b \in GgBackends \ {ggBackend} : ggBackend' = b
    /\ UNCHANGED <<ggPc, ggObj, ggCall, ggOut, notGgVars>>

\* GeneralGaussian(scope, mean, std), GeneralGaussian.accepts(signatures) and
\* GeneralGaussian.from_signatures(signatures); the caller keeps an instance
\* that is returned
GgCallClassOp ==
    /\ ggPc = "idle"
    /\ \E op \in GgClassOps, a \in GgArgs :
          LET r == GgEval(ggBackend, op, ggObj, a)
          IN  /\ ggOut' = r
              /\ ggObj' = IF r.val.kind = "instance" THEN r.val ELSE ggObj
              /\ ggCall' = [op |-> op, args |-> a, backend |-> ggBackend,
                            before |-> ggObj]
    /\ ggPc' = "returned"
    /\ UNCHANGED <<ggBackend, notGgVars>>

\* GeneralGaussian.dist.fget(g), GeneralGaussian.set_params(g, mean, std),
\* GeneralGaussian.get_params(g), GeneralGaussian.check_support(g, data) on
\* the instance g the caller holds
GgCallInstanceOp ==
    /\ ggPc = "idle"
    /\ ggObj # GgNone
    /\ \E op \in GgOps \ GgClassOps, a \in GgArgs :
          LET r == GgEval(ggBackend, op, ggObj, a)
          IN  /\ ggOut' = r
              /\ ggObj' = r.obj
              /\ ggCall' = [op |-> op, args |-> a, backend |-> ggBackend,
                            before |-> ggObj]
    /\ ggPc' = "returned"
    /\ UNCHANGED <<ggBackend, notGgVars>>

\* the caller goes on after the operation returned or raised
GgContinue ==
    /\ ggPc = "returned"
    /\ ggPc' = "idle"
    /\ ggCall' = GgNoCall
    /\ ggOut' = GgOutcome("none", GgNone, "", GgNone)
    /\ UNCHANGED <<ggBackend, ggObj, notGgVars>>

(***************************************************************************)
(* Legacy graph: equals, _print_node_graph, _get_node_counts               *)
(*   src/src/spn/structure/graph/node.py                                   *)
(***************************************************************************)
\* largest number of nodes of a graph
MaxLgNodes == 3

\* weights of a sum node, in millionths: 0.5, 0.500001 (within relative
\* tolerance 1e-5 of 0.5) and 0.50001 (not within it)
LgWeightVals == {500000, 500001, 500010}

\* a node: its class, its scope list, its children (the positions of nodes
\* built before it) and, for a sum node, its weights
LeafNode(scope) ==
    [type |-> "LeafNode", scope |-> scope, children |-> <<>>, weights |-> <<>>]
ProductNode(children, scope) ==
    [type |-> "ProductNode", scope |-> scope, children |-> children, weights |-> <<>>]
SumNode(children, scope, weights) ==
    [type |-> "SumNode", scope |-> scope, children |-> children, weights |-> weights]

Min(a, b) == IF a < b THEN a ELSE b
Max(a, b) == IF a > b THEN a ELSE b

\* math.isclose(x, y, rel_tol=1.0e-5): abs(x - y) <= 1e-5 * max(abs(x), abs(y))
LgIsClose(x, y) == (Max(x, y) - Min(x, y)) * 100000 <= Max(x, y)

\* all(map(f, s, t)) looks at the positions 1..LgMapLen(s, t): map stops at
\* the end of the shorter list
LgMapLen(s, t) == Min(Len(s), Len(t))

\* a.equals(b): SumNode.equals (lines 77-98) for a sum node a, Node.equals
\* (lines 44-52) otherwise
RECURSIVE LgEquals(_, _, _)
LgNodeEquals(nodes, a, b) ==
    /\ nodes[a].type = nodes[b].type
    /\ nodes[a].scope = nodes[b].scope
    /\ \A i \in 1..LgMapLen(nodes[a].children, nodes[b].children) :
          LgEquals(nodes, nodes[a].children[i], nodes[b].children[i])

LgEquals(nodes, a, b) ==
    IF nodes[a].type = "SumNode"
    THEN IF nodes[b].type = "SumNode"
         THEN /\ LgNodeEquals(nodes, a, b)
              /\ \A i \in 1..LgMapLen(nodes[a].weights, nodes[b].weights) :
                    LgIsClose(nodes[a].weights[i], nodes[b].weights[i])
              /\ Len(nodes[a].weights) = Len(nodes[b].weights)
         ELSE FALSE
    ELSE LgNodeEquals(nodes, a, b)

\* the orders in which the elements of the set S can be listed
LgListings(S) == {o \in [1..Cardinality(S) -> S] : Range(o) = S}

\* the loop of _get_node_counts (lines 142-152) and of _print_node_graph
\* (lines 117-120) from the list queue on: every run it can take, list(set)
\* giving the new nodes in any order; a run is the list of the nodes that
\* were popped
RECURSIVE LgRuns(_, _, _)
LgRuns(nodes, queue, popped) ==
    IF queue = <<>> THEN {popped}
    ELSE LET node == Head(queue)
             rest == Tail(queue)
             new  == Range(nodes[node].children) \ Range(rest)
         IN  UNION {LgRuns(nodes, rest \o o, Append(popped, node)) : o \in LgListings(new)}

\* the number of popped nodes of a class
LgCountOf(nodes, popped, type) ==
    Cardinality({i \in 1..Len(popped) : nodes[popped[i]].type = type})

\* the nodes that can be added to a graph of k nodes
LgChildLists(k) ==
    {c \in SeqsOf(1..k, 1, 2) : \A i \in 1..(Len(c) - 1) : c[i] <= c[i + 1]}

LgNewNodes(k) ==
    {LeafNode(<<v>>) : v \in {0, 1}}
    \cup {ProductNode(c, <<0, 1>>) : c \in LgChildLists(k)}
    \cup {SumNode(c, <<0>>, w) : c \in LgChildLists(k),
                                 w \in {<<a>> : a \in LgWeightVals} \cup {<<500000, 500000>>}}

\* the root lists of the calls: one node or two different nodes
LgRootLists(k) == {r \in SeqsOf(1..k, 1, 2) : Len(r) = 2 => r[1] # r[2]}

LgNoCall == [op |-> "none", a |-> 0, b |-> 0, roots |-> <<>>, wrapped |-> FALSE]
LgNoOut == [eq |-> FALSE, popped |-> <<>>, counts |-> <<0, 0, 0>>, roots |-> <<>>]

LgIdle ==
    /\ lgPc = "idle"
    /\ lgNodes = <<>>
    /\ lgCall = LgNoCall
    /\ lgOut = LgNoOut

\* LeafNode(scope), ProductNode(children, scope), SumNode(children, scope, weights)
LgBuild ==
    /\ lgPc = "idle"
    /\ Len(lgNodes) < MaxLgNodes
    /\ \E n \in LgNewNodes(Len(lgNodes)) : lgNodes' = Append(lgNodes, n)
    /\ UNCHANGED <<lgPc, lgCall, lgOut, notLgVars>>

\* a.equals(b)
LgCallEquals ==
    /\ lgPc = "idle"
    /\ \E a \in 1..Len(lgNodes), b \in 1..Len(lgNodes) :
          /\ lgOut' = [LgNoOut EXCEPT !.eq = LgEquals(lgNodes, a, b)]
          /\ lgCall' = [LgNoCall EXCEPT !.op = "equals", !.a = a, !.b = b]
    /\ lgPc' = "returned"
    /\ UNCHANGED <<lgNodes, notLgVars>>

\* _get_node_counts(roots) with a list, and _get_node_counts(root) with a
\* single node, which wraps it into a new list (line 160); the loop works on
\* the list it is given (line 137) and pops until it is empty
LgCallGetNodeCounts ==
    /\ lgPc = "idle"
    /\ \E roots \in LgRootLists(Len(lgNodes)), wrapped \in BOOLEAN :
          /\ wrapped => Len(roots) = 1
          /\ \E run \in LgRuns(lgNodes, roots, <<>>) :
                lgOut' = [eq |-> FALSE, popped |-> run,
                          counts |-> <<LgCountOf(lgNodes, run, "SumNode"),
                                       LgCountOf(lgNodes, run, "ProductNode"),
                                       LgCountOf(lgNodes, run, "LeafNode")>>,
                          roots |-> IF wrapped THEN roots ELSE <<>>]
          /\ lgCall' = [LgNoCall EXCEPT !.op = "_get_node_counts", !.roots = roots,
                                        !.wrapped = wrapped]
    /\ lgPc' = "returned"
    /\ UNCHANGED <<lgNodes, notLgVars>>

\* _print_node_graph(roots) and _print_node_graph(root): the loop works on a
\* copy of the list (line 116) and prints every node it pops
LgCallPrintNodeGraph ==
    /\ lgPc = "idle"
    /\ \E roots \in LgRootLists(Len(lgNodes)), wrapped \in BOOLEAN :
          /\ wrapped => Len(roots) = 1
          /\ \E run \in LgRuns(lgNodes, roots, <<>>) :
                lgOut' = [LgNoOut EXCEPT !.popped = run, !.roots = roots]
          /\ lgCall' = [LgNoCall EXCEPT !.op = "_print_node_graph", !.roots = roots,
                                        !.wrapped = wrapped]
    /\ lgPc' = "returned"
    /\ UNCHANGED <<lgNodes, notLgVars>>

\* the caller goes on after the operation returned
LgContinue ==
    /\ lgPc = "returned"
    /\ lgPc' = "idle"
    /\ lgCall' = LgNoCall
    /\ lgOut' = LgNoOut
    /\ UNCHANGED <<lgNodes, notLgVars>>

(***************************************************************************)
(* Legacy histogram leaf: create_histogram_leaf, histogram_likelihood      *)
(*   src/src/spn/leaves/Histograms.py                                      *)
(***************************************************************************)
\* largest number of rows of the data a leaf is built from, and of the data
\* whose likelihood is asked for
HsRows == 2

\* Inference.EPSILON, a small positive constant of the inference engine; the
\* model takes one millionth
EPSILON == <<1, 1000000>>

\* a value that is not a number
HsNaN == 0 - 1000

\* x < y and x > y on values: both are false when one of them is NaN
HsLt(x, y) == x # HsNaN /\ y # HsNaN /\ x < y
HsGt(x, y) == HsLt(y, x)

FracLess(f, g) == f[1] * g[2] < g[1] * f[2]

\* Histogram(breaks, densities)
Histogram(breaks, densities, smoothed) ==
    [built |-> TRUE, breaks |-> breaks, densities |-> densities, smoothed |-> smoothed]
HsNoNode == [built |-> FALSE, breaks |-> <<>>, densities |-> <<>>, smoothed |-> FALSE]

\* np.histogram(data, bins=breaks, density=True) (line 57): the number of
\* rows in each bin, the last bin closed on the right, over the number of rows
\* in any bin times the width of the bin
HsBinCount(data, breaks, i) ==
    Cardinality({r \in 1..Len(data) :
        /\ data[r] >= breaks[i]
        /\ \/ data[r] < breaks[i + 1]
           \/ i + 1 = Len(breaks) /\ data[r] = breaks[i + 1]})

HsInRange(data, breaks) ==
    Cardinality({r \in 1..Len(data) : data[r] >= breaks[1] /\ data[r] <= breaks[Len(breaks)]})

HsNpHistogram(data, breaks) ==
    [i \in 1..(Len(breaks) - 1) |->
        Frac(HsBinCount(data, breaks, i),
             HsInRange(data, breaks) * (breaks[i + 1] - breaks[i]))]

\* lines 64-68: laplacian smoothing, skipped when alpha is 0
HsSmooth(densities, n_samples, n_bins, alpha) ==
    IF alpha = 0 THEN densities
    ELSE [i \in 1..Len(densities) |->
            FracDiv(FracAdd(FracMul(densities[i], FracOf(n_samples)), FracOf(alpha)),
                    FracOf(n_samples + n_bins * alpha))]

\* np.var(data) > 1e-10 (line 49) for data of integers: the rows differ
HsVaries(data) == \E r, q \in 1..Len(data) : data[r] # data[q]

\* largest number of times the model bootstraps the external environment
MaxBoots == 3

\* init_rpy() (lines 16-28): returns at once when rpy_initialized is set;
\* otherwise the script is loaded and the array conversion activated. No line
\* assigns rpy_initialized, so the global stays as it is
HsInitRpy(rpy) ==
    IF rpy.initialized THEN rpy
    ELSE [initialized |-> rpy.initialized, boots |-> rpy.boots + 1]

\* the breaks the external histogram routine can give for data that vary:
\* one bin from the smallest to the largest value, or bins of width one
HsExternalBreaks(data) ==
    LET lo == CHOOSE v \in Range(data) : \A u \in Range(data) : v <= u
        hi == CHOOSE v \in Range(data) : \A u \in Range(data) : v >= u
    IN  {<<lo, hi>>, [i \in 1..(hi - lo + 1) |-> lo + i - 1]}

\* getHistogramVals(data) (lines 133-142): init_rpy(), then the breaks and
\* densities of the external routine
HsGetHistogramVals(data, breaks, rpy) ==
    [breaks |-> breaks, densities |-> HsNpHistogram(data, breaks), rpy |-> HsInitRpy(rpy)]

\* create_histogram_leaf(data, ds_context, scope, alpha) (lines 37-72), with
\* the statistical type and the domain the context has for scope[0]; ext is
\* what getHistogramVals returned when it was called
HsCreate(data, statistical_type, domain, scope, alpha, ext) ==
    IF Len(scope) # 1 THEN [err |-> "AssertionError", node |-> HsNoNode]
    ELSE IF statistical_type = "continuous" /\ HsVaries(data)
    THEN [err |-> "none",
          node |-> Histogram(ext.breaks, HsSmooth(ext.densities, Len(data), Len(ext.breaks) - 1, alpha),
                             alpha = 1)]
    ELSE IF statistical_type = "continuous"
    THEN LET breaks == <<domain[1], domain[Len(domain)]>>
             densities == <<Frac(1, domain[Len(domain)] - domain[1])>>
         IN  [err |-> "none",
              node |-> Histogram(breaks, HsSmooth(densities, Len(data), 1, alpha), alpha = 1)]
    ELSE IF statistical_type \in {"discrete", "categorical"}
    THEN LET breaks == Append(domain, domain[Len(domain)] + 1)
             densities == HsNpHistogram(data, breaks)
         IN  [err |-> "none",
              node |-> Histogram(breaks,
                                 HsSmooth(densities, Len(data), Len(breaks) - 1, alpha),
                                 alpha = 1)]
    ELSE [err |-> "Exception", node |-> HsNoNode]

\* lines 83-87: the number of breaks before the first one above x
HsScan(breaks, x) ==
    IF \E i \in 1..Len(breaks) : HsGt(breaks[i], x)
    THEN (CHOOSE i \in 1..Len(breaks) :
             /\ HsGt(breaks[i], x)
             /\ \A k \in 1..(i - 1) : ~HsGt(breaks[k], x)) - 1
    ELSE Len(breaks)

\* lines 80-89 for one row: the probability left at 0 for a value outside
\* the breaks, the density of the bin otherwise; densities[j-1] raises
\* IndexError when j is past the last bin
HsRow(node, x) ==
    IF HsLt(x, node.breaks[1]) \/ HsGt(x, node.breaks[Len(node.breaks)])
    THEN [err |-> "none", p |-> FracOf(0)]
    ELSE LET j == HsScan(node.breaks, x)
         IN  IF j > Len(node.densities)
             THEN [err |-> "IndexError", p |-> FracOf(0)]
             ELSE [err |-> "none", p |-> node.densities[j]]

\* line 92, for one entry: probs[probs < EPSILON] = EPSILON
HsFloorNone(p) == p
HsFloor(p) == IF FracLess(p, EPSILON) THEN EPSILON ELSE p

\* line 92: the floor is applied to every entry of probs
HsFloorWhereSet(probs) ==
    [i \in 1..Len(probs) |-> IF probs[i] = FracOf(0) THEN probs[i] ELSE HsFloor(probs[i])]
HsFloorAll(probs) == [i \in 1..Len(probs) |-> HsFloor(probs[i])]

\* np.log of one entry: minus infinity for 0, the logarithm of p otherwise
HsLog(p) == [neg_inf |-> p = FracOf(0), of |-> p]

\* log(p) < log(q)
HsLogBelow(l, m) == ~m.neg_inf /\ (l.neg_inf \/ FracLess(l.of, m.of))

\* histogram_likelihood(node, data) (lines 75-94)
HsLikelihood(node, data) ==
    LET rows == [i \in 1..Len(data) |-> HsRow(node, data[i])]
        probs == [i \in 1..Len(data) |-> rows[i].p]
        floored == HsFloorAll(probs)
    IN  IF \E i \in 1..Len(data) : rows[i].err # "none"
        THEN [err |-> "IndexError", probs |-> <<>>, logs |-> <<>>]
        ELSE [err |-> "none", probs |-> probs,
              logs |-> [i \in 1..Len(data) |-> HsLog(floored[i])]]

\* the arguments of the calls
HsDomains == {<<0, 1>>, <<0, 2>>, <<0, 1, 2>>}
HsTypes == {"continuous", "discrete", "categorical", "ordinal"}
HsScopes == {<<0>>, <<0, 1>>}
HsAlphas == {0, 1}
HsDensityVals == {FracOf(0), <<1, 2000000>>, <<1, 2>>, FracOf(1)}
HsQueryVals == {HsNaN, 0 - 1, 0, 1, 2, 3}

HsNoCall == [op |-> "none", data |-> <<>>]
HsNoOut == [err |-> "none", probs |-> <<>>, logs |-> <<>>]

HsIdle ==
    /\ hsPc = "idle"
    /\ hsNode = HsNoNode
    /\ hsCall = HsNoCall
    /\ hsOut = HsNoOut
    /\ hsRpy = [initialized |-> FALSE, boots |-> 0]

\* node = create_histogram_leaf(data, ds_context, scope, alpha): the data are
\* values of the domain; continuous data that vary are binned by the
\* external statistical environment (getHistogramVals)
HsCallCreate ==
    /\ hsPc = "idle"
    /\ \E domain \in HsDomains, statistical_type \in HsTypes, scope \in HsScopes,
          alpha \in HsAlphas :
          \E data \in SeqsOf(Range(domain), 1, HsRows) :
             LET external == Len(scope) = 1 /\ statistical_type = "continuous" /\ HsVaries(data)
             IN  /\ external => hsRpy.boots < MaxBoots
                 /\ \E breaks \in HsExternalBreaks(data) :
                       LET ext == HsGetHistogramVals(data, breaks, hsRpy)
                           r == HsCreate(data, statistical_type, domain, scope, alpha, ext)
                       IN  /\ hsNode' = IF r.err = "none" THEN r.node ELSE hsNode
                           /\ hsOut' = [HsNoOut EXCEPT !.err = r.err]
                           /\ hsRpy' = IF external THEN ext.rpy ELSE hsRpy
                 /\ hsCall' = [op |-> "create_histogram_leaf", data |-> data]
    /\ hsPc' = "returned"
    /\ UNCHANGED notHsVars

\* breaks, densities, mids = getHistogramVals(data) on data that vary
HsCallGetHistogramVals ==
    /\ hsPc = "idle"
    /\ hsRpy.boots < MaxBoots
    /\ \E data \in SeqsOf({0, 1, 2}, 2, HsRows) :
          /\ HsVaries(data)
          /\ \E breaks \in HsExternalBreaks(data) :
                hsRpy' = HsGetHistogramVals(data, breaks, hsRpy).rpy
          /\ hsCall' = [op |-> "getHistogramVals", data |-> data]
    /\ hsOut' = HsNoOut
    /\ hsPc' = "returned"
    /\ UNCHANGED <<hsNode, notHsVars>>

\* node = Histogram(breaks, densities), one density for each bin
HsCallHistogram ==
    /\ hsPc = "idle"
    /\ \E breaks \in HsDomains :
          \E densities \in SeqsOf(HsDensityVals, Len(breaks) - 1, Len(breaks) - 1) :
             hsNode' = Histogram(breaks, densities, FALSE)
    /\ hsCall' = [op |-> "Histogram", data |-> <<>>]
    /\ hsOut' = HsNoOut
    /\ hsPc' = "returned"
    /\ UNCHANGED <<hsRpy, notHsVars>>

\* histogram_likelihood(node, data)
HsCallLikelihood ==
    /\ hsPc = "idle"
    /\ hsNode.built
    /\ \E data \in SeqsOf(HsQueryVals, 1, HsRows) :
          /\ hsOut' = HsLikelihood(hsNode, data)
          /\ hsCall' = [op |-> "histogram_likelihood", data |-> data]
    /\ hsPc' = "returned"
    /\ UNCHANGED <<hsNode, hsRpy, notHsVars>>

\* the caller goes on after the operation returned or raised
HsContinue ==
    /\ hsPc = "returned"
    /\ hsPc' = "idle"
    /\ hsCall' = HsNoCall
    /\ hsOut' = HsNoOut
    /\ UNCHANGED <<hsNode, hsRpy, notHsVars>>

(***************************************************************************)
(* Legacy histogram leaf: add_domains                                      *)
(*   src/src/spn/leaves/Histograms.py                                      *)
(***************************************************************************)
\* largest number of rows and of columns of the data
DsRows == 2
DsCols == 2

\* the values of the data
DsValues == {0, 1, 2}

\* data[:, col] of data given as a list of rows
DsColumn(data, col) == [r \in 1..Len(data) |-> data[r][col]]

\* the elements of a set of numbers in ascending order
RECURSIVE DsSorted(_)
DsSorted(S) ==
    IF S = {} THEN <<>>
    ELSE LET m == CHOOSE v \in S : \A u \in S : v <= u
         IN  <<m>> \o DsSorted(S \ {m})

\* line 152: [np.min(data[:, col]), np.max(data[:, col])]
DsMinMax(column) ==
    LET sorted == DsSorted(Range(column)) IN <<sorted[1], sorted[Len(sorted)]>>

\* line 154: np.unique(data[:, col])
DsUnique(column) == DsSorted(Range(column))

\* lines 147-154: the list domain after the loop over the columns from col
\* on; a column whose type is none of the three appends nothing
RECURSIVE DsLoop(_, _, _, _)
DsLoop(data, types, col, domain) ==
    IF col > Len(data[1]) THEN domain
    ELSE DsLoop(data, types, col + 1,
                IF types[col] = "continuous"
                THEN Append(domain, DsMinMax(DsColumn(data, col)))
                ELSE IF types[col] \in {"discrete", "categorical"}
                THEN Append(domain, DsUnique(DsColumn(data, col)))
                ELSE domain)

\* line 156: np.asanyarray(domain). Entries of one length become the rows of
\* a two-dimensional array; entries of different lengths become the elements
\* of an array of objects or, depending on the version of the array library,
\* make the conversion raise ValueError
DsAsAnyArray(domain) ==
    IF \A i, j \in 1..Len(domain) : Len(domain[i]) = Len(domain[j])
    THEN {[err |-> "none", array |-> domain]}
    ELSE {[err |-> "none", array |-> domain], [err |-> "ValueError", array |-> <<>>]}

\* add_domains(data, ds_context) (lines 146-156): the outcomes
DsAddDomains(data, ctx) ==
    {[err |-> a.err,
      ctx |-> IF a.err = "none" THEN [ctx EXCEPT !.domain = a.array, !.set = TRUE] ELSE ctx] :
        a \in DsAsAnyArray(DsLoop(data, ctx.statistical_type, 1, <<>>))}

DsData == UNION {[1..n -> [1..c -> DsValues]] : n \in 1..DsRows, c \in 1..DsCols}

DsNoCall == [data |-> <<>>, err |-> "none"]

\* ds_context = Context(...): no statistical types and no domain yet
DsIdle ==
    /\ dsPc = "idle"
    /\ dsCtx = [statistical_type |-> <<>>, domain |-> <<>>, set |-> FALSE]
    /\ dsCall = DsNoCall

\* ds_context.statistical_type = [...]; add_domains(data, ds_context), with
\* one statistical type for each column of the data
DsCallAddDomains ==
    /\ dsPc = "idle"
    /\ \E data \in DsData :
          \E types \in [1..Len(data[1]) -> HsTypes] :
             \E r \in DsAddDomains(data, [dsCtx EXCEPT !.statistical_type = types]) :
                /\ dsCtx' = r.ctx
                /\ dsCall' = [data |-> data, err |-> r.err]
    /\ dsPc' = "returned"
    /\ UNCHANGED notDsVars

\* the caller goes on after add_domains returned or raised
DsContinue ==
    /\ dsPc = "returned"
    /\ dsPc' = "idle"
    /\ dsCall' = DsNoCall
    /\ UNCHANGED <<dsCtx, notDsVars>>

(***************************************************************************)
(* Structure learning: learn_spn                                           *)
(*   the recursive partition/cluster/fit procedure, one step for each      *)
(*   activation of learn_spn on a slice of the data                        *)
(***************************************************************************)
\* largest number of rows and of columns of the data
LsRows == 3
LsCols == 3

\* the interpreter's limit on the depth of the recursion; a recursion that
\* makes each slice smaller than its caller's never gets this deep
LsRecursionLimit == LsRows + LsCols

\* admissible min_instances_slice and min_features_slice
LsMinInstances == {2, 3}
LsMinFeatures == {2, 3}

\* the sizes of the groups of a labelling of n rows or columns, one label
\* each: one group of all of them, or two groups that are not empty
LsLabellings(n) == {<<n>>} \cup {<<a, n - a>> : a \in 1..(n - 1)}

LsSlice(rows, cols, depth) == [rows |-> rows, cols |-> cols, depth |-> depth]

LsNoCall == [rows |-> 0, cols |-> 0, min_instances_slice |-> 0, min_features_slice |-> 0]

LsNoOut == [err |-> "none", leaves |-> 0, sums |-> 0, products |-> 0]

LsIdle ==
    /\ lsPc = "idle"
    /\ lsCall = LsNoCall
    /\ lsStack = <<>>
    /\ lsOut = LsNoOut

\* learn_spn(data, feature_ctx, clustering_method, partitioning_method,
\* min_instances_slice, min_features_slice) is called on the whole data
LsCallLearnSpn ==
    /\ lsPc = "idle"
    /\ \E rows \in 1..LsRows, cols \in 1..LsCols, mi \in LsMinInstances, mf \in LsMinFeatures :
          /\ lsCall' = [rows |-> rows, cols |-> cols,
                        min_instances_slice |-> mi, min_features_slice |-> mf]
          /\ lsStack' = <<LsSlice(rows, cols, 1)>>
    /\ lsPc' = "running"
    /\ lsOut' = LsNoOut
    /\ UNCHANGED notLsVars

\* the activation for the next slice can run
LsActive ==
    /\ lsPc = "running"
    /\ lsStack # <<>>
    /\ lsStack[1].depth <= LsRecursionLimit

\* step 2: the feature count of the slice is at most min_features_slice: the
\* leaves of the remaining features
LsBaseFeatures ==
    /\ LsActive
    /\ lsStack[1].cols <= lsCall.min_features_slice
    /\ lsStack' = Tail(lsStack)
    /\ lsOut' = [lsOut EXCEPT !.leaves = @ + lsStack[1].cols]
    /\ UNCHANGED <<lsPc, lsCall, notLsVars>>

\* step 4, second case: partitioning_method found two groups of columns: a
\* product over the recursion into each group with all rows
LsPartition ==
    /\ LsActive
    /\ lsStack[1].cols > lsCall.min_features_slice
    /\ \E groups \in LsLabellings(lsStack[1].cols) :
          /\ Len(groups) >= 2
          /\ lsStack' = [i \in 1..Len(groups) |->
                            LsSlice(lsStack[1].rows, groups[i], lsStack[1].depth + 1)]
                        \o Tail(lsStack)
    /\ lsOut' = [lsOut EXCEPT !.products = @ + 1]
    /\ UNCHANGED <<lsPc, lsCall, notLsVars>>

\* step 3: partitioning_method found one group and the instance count of the
\* slice is at most min_instances_slice: no clustering, the leaves of the
\* features
LsBaseInstances ==
    /\ LsActive
    /\ lsStack[1].cols > lsCall.min_features_slice
    /\ lsStack[1].rows <= lsCall.min_instances_slice
    /\ lsStack' = Tail(lsStack)
    /\ lsOut' = [lsOut EXCEPT !.leaves = @ + lsStack[1].cols]
    /\ UNCHANGED <<lsPc, lsCall, notLsVars>>

\* step 4, first case: partitioning_method found one group: clustering_method
\* labels the rows and learn_spn recurses into each cluster with all columns;
\* a sum over the results unless there is one cluster only
LsCluster ==
    /\ LsActive
    /\ lsStack[1].cols > lsCall.min_features_slice
    /\ lsStack[1].rows > lsCall.min_instances_slice
    /\ \E clusters \in LsLabellings(lsStack[1].rows) :
          /\ lsStack' = [i \in 1..Len(clusters) |->
                            LsSlice(clusters[i], lsStack[1].cols, lsStack[1].depth + 1)]
                        \o Tail(lsStack)
          /\ lsOut' = [lsOut EXCEPT !.sums = @ + (IF Len(clusters) >= 2 THEN 1 ELSE 0)]
    /\ UNCHANGED <<lsPc, lsCall, notLsVars>>

\* the recursion is deeper than the interpreter allows: RecursionError
LsRecursionError ==
    /\ lsPc = "running"
    /\ lsStack # <<>>
    /\ lsStack[1].depth > LsRecursionLimit
    /\ lsPc' = "returned"
    /\ lsStack' = <<>>
    /\ lsOut' = [lsOut EXCEPT !.err = "RecursionError"]
    /\ UNCHANGED <<lsCall, notLsVars>>

\* every slice has hit a base case: learn_spn returns the root
LsReturn ==
    /\ lsPc = "running"
    /\ lsStack = <<>>
    /\ lsPc' = "returned"
    /\ UNCHANGED <<lsCall, lsStack, lsOut, notLsVars>>

\* the caller goes on after learn_spn returned or raised
LsContinue ==
    /\ lsPc = "returned"
    /\ lsPc' = "idle"
    /\ lsCall' = LsNoCall
    /\ lsOut' = LsNoOut
    /\ UNCHANGED <<lsStack, notLsVars>>

(***************************************************************************)
(* Legacy histogram leaf: histogram_to_str, the histogram grammar and      *)
(* tree_to_spn                                                             *)
(*   src/src/spn/leaves/Histograms.py                                      *)
(* A text is a sequence of characters (the fixed word "Histogram(" is one  *)
(* element); a number is its sign, its integer part and the digits of its  *)
(* fraction without trailing zeros.                                        *)
(***************************************************************************)
\* precision=10 and "%.10f": the digits kept after the decimal point
TxPrecision == 10

TxDigitChars == <<"0", "1", "2", "3", "4", "5", "6", "7", "8", "9">>

TxDigitValue(c) == CHOOSE d \in 0..9 : TxDigitChars[d + 1] = c

TxIsDigit(c) == \E d \in 0..9 : TxDigitChars[d + 1] = c

\* HISTVARNAMECHAR: "a".."z"|"A".."Z"|DIGITHIST, over the characters in use
TxIsNameChar(c) == c \in {"a", "b", "V"} \/ TxIsDigit(c)

TxNumber(neg, int, frac) == [neg |-> neg, int |-> int, frac |-> frac]

\* str(n) of a natural number
RECURSIVE TxIntChars(_)
TxIntChars(n) ==
    IF n < 10 THEN <<TxDigitChars[n + 1]>>
    ELSE TxIntChars(n \div 10) \o <<TxDigitChars[(n % 10) + 1]>>

\* the natural number a sequence of digit characters stands for
RECURSIVE TxIntValue(_)
TxIntValue(chars) ==
    IF chars = <<>> THEN 0
    ELSE 10 * TxIntValue(SubSeq(chars, 1, Len(chars) - 1)) + TxDigitValue(chars[Len(chars)])

\* digits without the trailing zeros
RECURSIVE TxTrim(_)
TxTrim(digits) ==
    IF digits # <<>> /\ digits[Len(digits)] = 0
    THEN TxTrim(SubSeq(digits, 1, Len(digits) - 1))
    ELSE digits

\* digits right-padded with zeros to n digits
RECURSIVE TxZeroPad(_, _)
TxZeroPad(digits, n) ==
    IF Len(digits) >= n THEN digits ELSE TxZeroPad(Append(digits, 0), n)

\* one unit more in the last place of digits, with the carry out of the first
RECURSIVE TxIncrement(_)
TxIncrement(digits) ==
    IF digits = <<>> THEN [digits |-> <<>>, carry |-> 1]
    ELSE LET front == SubSeq(digits, 1, Len(digits) - 1)
             last == digits[Len(digits)]
         IN  IF last < 9
             THEN [digits |-> Append(front, last + 1), carry |-> 0]
             ELSE LET r == TxIncrement(front)
                  IN  [digits |-> Append(r.digits, 0), carry |-> r.carry]

\* a number rounded to TxPrecision digits after the decimal point
TxRound(x) ==
    IF Len(x.frac) <= TxPrecision THEN x
    ELSE LET kept == SubSeq(x.frac, 1, TxPrecision)
         IN  IF x.frac[TxPrecision + 1] < 5
             THEN TxNumber(x.neg, x.int, TxTrim(kept))
             ELSE LET r == TxIncrement(kept)
                  IN  TxNumber(x.neg, x.int + r.carry, TxTrim(r.digits))

TxFracChars(digits) == [i \in 1..Len(digits) |-> TxDigitChars[digits[i] + 1]]

TxSpaces(n) == [i \in 1..n |-> " "]

\* one element of np.array2string(np.array(node.breaks), precision=10,
\* separator=',') (line 101): the shortest digits up to the precision, the
\* decimal point kept, a minus sign for a negative number, and spaces up to
\* the widest integer part and the longest fraction of the array
TxBreakChars(x, left, right) ==
    LET r == TxRound(x)
        int == (IF r.neg THEN <<"-">> ELSE <<>>) \o TxIntChars(r.int)
    IN  TxSpaces(left - Len(int)) \o int \o <<".">> \o TxFracChars(r.frac)
        \o TxSpaces(right - Len(r.frac))

\* "%.10f" % x (line 102)
TxDensityChars(x) ==
    LET r == TxRound(x)
    IN  (IF r.neg THEN <<"-">> ELSE <<>>) \o TxIntChars(r.int) \o <<".">>
        \o TxFracChars(TxZeroPad(r.frac, TxPrecision))

\* the elements of an array joined by the separator ','
RECURSIVE TxJoin(_)
TxJoin(items) ==
    IF items = <<>> THEN <<>>
    ELSE IF Len(items) = 1 THEN items[1]
    ELSE items[1] \o <<",">> \o TxJoin(Tail(items))

TxMaxOf(S) == CHOOSE m \in S : \A n \in S : n <= m

\* lines 101-102: the two arrays as text
TxBreaksText(breaks) ==
    LET left == TxMaxOf({Len(TxIntChars(TxRound(b).int)) + (IF TxRound(b).neg THEN 1 ELSE 0) :
                           b \in Range(breaks)})
        right == TxMaxOf({Len(TxRound(b).frac) : b \in Range(breaks)})
    IN  <<"[">> \o TxJoin([i \in 1..Len(breaks) |-> TxBreakChars(breaks[i], left, right)])
        \o <<"]">>

TxDensitiesText(densities) ==
    <<"[">> \o TxJoin([i \in 1..Len(densities) |-> TxDensityChars(densities[i])]) \o <<"]">>

\* histogram_to_str(node, feature_names) (lines 95-104); feature_names is
\* <<>> for None, and the scope holds the position counted from 0
histogram_to_str(node, feature_names) ==
    LET fname == IF feature_names = <<>>
                 THEN <<"V">> \o TxIntChars(node.scope[1])
                 ELSE feature_names[node.scope[1] + 1]
    IN  <<"Histogram(">> \o fname \o <<"|">> \o TxBreaksText(node.breaks) \o <<";">>
        \o TxDensitiesText(node.densities) \o <<")">>

\* the parser skips white space between the tokens
RECURSIVE TxSkipSpaces(_)
TxSkipSpaces(text) ==
    IF text = <<>> THEN <<>>
    ELSE IF text[1] = " " THEN TxSkipSpaces(Tail(text))
    ELSE <<text[1]>> \o TxSkipSpaces(Tail(text))

\* the position of the first c in text, 0 when there is none
TxFind(text, c) ==
    IF \E i \in 1..Len(text) : text[i] = c
    THEN CHOOSE i \in 1..Len(text) : text[i] = c /\ \A j \in 1..(i - 1) : text[j] # c
    ELSE 0

\* text cut at each ','
RECURSIVE TxSplit(_)
TxSplit(text) ==
    LET k == TxFind(text, ",")
    IN  IF k = 0 THEN <<text>>
        ELSE <<SubSeq(text, 1, k - 1)>> \o TxSplit(SubSeq(text, k + 1, Len(text)))

\* DECIMAL: INT "." INT? | "." INT, with INT: DIGIT+ and no sign (line 172)
TxIsDecimal(item) ==
    LET dot == TxFind(item, ".")
    IN  /\ dot > 0
        /\ \A i \in 1..Len(item) : i # dot => TxIsDigit(item[i])
        /\ Len(item) >= 2

\* float(token) of a DECIMAL token (line 160)
TxFloat(item) ==
    LET dot == TxFind(item, ".")
    IN  TxNumber(FALSE, TxIntValue(SubSeq(item, 1, dot - 1)),
                 TxTrim([i \in 1..(Len(item) - dot) |-> TxDigitValue(item[dot + i])]))

\* listhist : "[" [DECIMAL ("," DECIMAL)*] "]" (line 172): the tokens of
\* the text between the brackets, or the text does not match
TxListhist(inner) ==
    IF inner = <<>> THEN [ok |-> TRUE, children |-> <<>>]
    ELSE LET items == TxSplit(inner)
         IN  IF \A i \in 1..Len(items) : TxIsDecimal(items[i])
             THEN [ok |-> TRUE, children |-> items]
             ELSE [ok |-> FALSE, children |-> <<>>]

TxNoTree == [ok |-> FALSE, name |-> <<>>, breaks |-> <<>>, densities |-> <<>>]

\* histogram: "Histogram(" HISTVARNAME "|" listhist ";" listhist ")" (lines
\* 170-173): the tree of the text, or the text does not match
TxParse(raw) ==
    LET text == TxSkipSpaces(raw)
        bar == TxFind(text, "|")
        semi == TxFind(text, ";")
        n == Len(text)
    IN  IF /\ n >= 8
           /\ text[1] = "Histogram("
           /\ bar > 2
           /\ \A i \in 2..(bar - 1) : TxIsNameChar(text[i])
           /\ semi > bar + 2
           /\ text[bar + 1] = "[" /\ text[semi - 1] = "]"
           /\ n >= semi + 3
           /\ text[semi + 1] = "[" /\ text[n - 1] = "]" /\ text[n] = ")"
        THEN LET l1 == TxListhist(SubSeq(text, bar + 2, semi - 2))
                 l2 == TxListhist(SubSeq(text, semi + 2, n - 2))
             IN  IF l1.ok /\ l2.ok
                 THEN [ok |-> TRUE, name |-> SubSeq(text, 2, bar - 1),
                       breaks |-> l1.children, densities |-> l2.children]
                 ELSE TxNoTree
        ELSE TxNoTree

\* features.index(feature) (line 164): the first position, counted from 0
TxIndex(features, feature) ==
    (CHOOSE i \in 1..Len(features) :
        features[i] = feature /\ \A j \in 1..(i - 1) : features[j] # feature) - 1

\* tree_to_spn(tree, features) (lines 159-166)
tree_to_spn(tree, features) ==
    [breaks |-> [i \in 1..Len(tree.breaks) |-> TxFloat(tree.breaks[i])],
     densities |-> [i \in 1..Len(tree.densities) |-> TxFloat(tree.densities[i])],
     scope |-> <<TxIndex(features, tree.name)>>]

TxNoLeaf == [breaks |-> <<>>, densities |-> <<>>, scope |-> <<>>]

\* serializing node and parsing the text back with the same feature names
TxRoundTrip(node, feature_names) ==
    LET text == histogram_to_str(node, feature_names)
        features == IF feature_names = <<>> THEN <<<<"V", "0">>, <<"V", "1">>>>
                    ELSE feature_names
        tree == TxParse(text)
    IN  IF tree.ok
        THEN [err |-> "none", text |-> text, node |-> tree_to_spn(tree, features)]
        ELSE [err |-> "ParseError", text |-> text, node |-> TxNoLeaf]

\* the numbers of the leaves: -1, 0, 0.5, 1, 2 and 0.12345678901
TxHalf == TxNumber(FALSE, 0, <<5>>)
TxLong == TxNumber(FALSE, 0, <<1, 2, 3, 4, 5, 6, 7, 8, 9, 0, 1>>)
TxInt(n) == TxNumber(n < 0, IF n < 0 THEN 0 - n ELSE n, <<>>)

\* breaks in ascending order
TxBreaks ==
    {<<TxInt(0), TxInt(1)>>, <<TxInt(0), TxInt(1), TxInt(2)>>,
     <<TxInt(0), TxHalf, TxInt(1)>>, <<TxInt(0), TxLong, TxInt(2)>>,
     <<TxInt(-1), TxInt(0), TxInt(1)>>, <<TxInt(-1), TxHalf>>}

TxDensities == {TxInt(0), TxHalf, TxInt(1), TxLong}

\* feature-name lists of two names; <<>> is None
TxFeatureNames ==
    {<<>>, <<<<"a">>, <<"b">>>>, <<<<"a">>, <<"a">>>>, <<<<"a", "1">>, <<"b">>>>,
     <<<<"a">>, <<"a", "_", "b">>>>}

TxNoCall == [node |-> TxNoLeaf, feature_names |-> <<>>]

TxNoOut == [err |-> "none", text |-> <<>>, node |-> TxNoLeaf]

TxIdle ==
    /\ txPc = "idle"
    /\ txCall = TxNoCall
    /\ txOut = TxNoOut

\* text = histogram_to_str(node, feature_names), then the text is parsed
\* with the histogram grammar and tree_to_spn builds the leaf
TxCallRoundTrip ==
    /\ txPc = "idle"
    /\ \E breaks \in TxBreaks, idx \in 0..1, feature_names \in TxFeatureNames :
          \E densities \in [1..(Len(breaks) - 1) -> TxDensities] :
             LET node == [breaks |-> breaks, densities |-> densities, scope |-> <<idx>>]
             IN  /\ txCall' = [node |-> node, feature_names |-> feature_names]
                 /\ txOut' = TxRoundTrip(node, feature_names)
    /\ txPc' = "returned"
    /\ UNCHANGED notTxVars

\* the caller goes on
TxContinue ==
    /\ txPc = "returned"
    /\ txPc' = "idle"
    /\ txCall' = TxNoCall
    /\ txOut' = TxNoOut
    /\ UNCHANGED notTxVars

(***************************************************************************)
(* Specifications                                                          *)
(***************************************************************************)
Init ==
    /\ HgIdle /\ SmIdle /\ LlIdle /\ MleIdle /\ GsIdle /\ EmIdle /\ GgIdle
    /\ LgIdle /\ HsIdle /\ DsIdle /\ LsIdle /\ TxIdle

NextLegacy ==
    LgBuild \/ LgCallEquals \/ LgCallGetNodeCounts \/ LgCallPrintNodeGraph \/ LgContinue

SpecLegacy == Init /\ [][NextLegacy]_vars

NextHistogram ==
    \/ HsCallCreate \/ HsCallHistogram \/ HsCallGetHistogramVals
    \/ HsCallLikelihood \/ HsContinue

SpecHistogram == Init /\ [][NextHistogram]_vars

NextDomains == DsCallAddDomains \/ DsContinue

SpecDomains == Init /\ [][NextDomains]_vars

NextLearn ==
    \/ LsCallLearnSpn \/ LsBaseFeatures \/ LsPartition \/ LsBaseInstances
    \/ LsCluster \/ LsRecursionError \/ LsReturn \/ LsContinue

SpecLearn == Init /\ [][NextLearn]_vars

NextText == TxCallRoundTrip \/ TxContinue

SpecText == Init /\ [][NextText]_vars

NextGeneral == GgSetBackend \/ GgCallClassOp \/ GgCallInstanceOp \/ GgContinue

SpecGeneral == Init /\ [][NextGeneral]_vars

NextEM == EmNewCtx \/ EmLogLikelihood \/ EmBackward \/ EmCallEm \/ EmCallMLE \/ EmContinue

SpecEM == Init /\ [][NextEM]_vars

NextGauss == GsConstruct \/ GsCallMLE \/ GsContinue

SpecGauss == Init /\ [][NextGauss]_vars

NextMLE == MleCallMLE \/ MleContinue

SpecMLE == Init /\ [][NextMLE]_vars

NextLL == LlSetup \/ LlNewCtx \/ LlLogLikelihood \/ LlContinue

SpecLL == Init /\ [][NextLL]_vars

NextHyper == HgConstruct \/ HgSetParams \/ HgMarginalize \/ HgContinue

SpecHyper == Init /\ [][NextHyper]_vars

NextSample == SmSetup \/ SmSample \/ SmContinue

SpecSample == Init /\ [][NextSample]_vars

\* the dispatched operations called one at a time, log_likelihood without a
\* dispatch context: an operation starts while the modules of the other
\* operations are as constructed
\* construction and set_params alone, with values inside and outside the domain
NextHyperParams == HgConstruct \/ HgSetParams \/ HgSetParamsOutside \/ HgContinue

SpecHyperParams == Init /\ [][NextHyperParams]_vars

NextNoCtx ==
    \/ (LlIdle /\ MleIdle /\ EmIdle) /\ NextSample
    \/ (SmIdle /\ MleIdle /\ EmIdle) /\ (LlSetup \/ LlContinue)
    \/ (SmIdle /\ MleIdle /\ EmIdle) /\ LlLogLikelihood /\ ~llCall'.explicit
    \/ (SmIdle /\ LlIdle /\ EmIdle) /\ NextMLE
    \/ (SmIdle /\ LlIdle /\ MleIdle) /\ NextEM

SpecNoCtx == Init /\ [][NextNoCtx]_vars

(***************************************************************************)
(* Claims about HypergeometricLayer                                        *)
(***************************************************************************)
HgReturned(op) == hgPc = "returned" /\ hgCall.op = op

\* the i-th smallest element of a set of numbers
NthOf(S, i) == CHOOSE j \in S : Cardinality({m \in S : m < j}) = i - 1

C6_DisjointReturnsSameObject ==
    (/\ HgReturned("marginalize")
     /\ Range(hgCall.before.scopes_out) \cap hgCall.marg_rvs = {})
        => hgOut.obj = hgCall.before

C8_Elem(a, i) == IF a.tag = "int" THEN a.val ELSE a.vals[i]

C8_IntOrExactList(a, n_out) ==
    a.tag = "int" \/ (a.tag = "seq" /\ Len(a.vals) = n_out)

C8_Conflict(scopes, a) ==
    \E i \in 1..Len(scopes), j \in 1..Len(scopes) :
        scopes[i] = scopes[j] /\ C8_Elem(a, i) # C8_Elem(a, j)

\* C8: construction and set_params accept each of N, M and n as an int
\* (broadcast to all n_out nodes) or as a one-dimensional list/array of
\* exactly n_out values, and raise ValueError for any other dimensionality
\* or length and whenever two nodes with the same query variable are given
\* different N, M or n.
C8_ParamShapes ==
    (hgPc = "returned" /\ hgCall.op \in {"init", "set_params"}) =>
        LET sc == hgCall.scope
            scopes == IF hgCall.op = "set_params" THEN hgCall.before.scopes_out
                      ELSE IF sc.single THEN [i \in 1..sc.n_nodes |-> sc.q]
                      ELSE sc.list
            n_out == Len(scopes)
            shapes == /\ C8_IntOrExactList(hgCall.N, n_out)
                      /\ C8_IntOrExactList(hgCall.M, n_out)
                      /\ C8_IntOrExactList(hgCall.n, n_out)
            conflict == \/ C8_Conflict(scopes, hgCall.N)
                        \/ C8_Conflict(scopes, hgCall.M)
                        \/ C8_Conflict(scopes, hgCall.n)
            valid == \A i \in 1..n_out :
                        /\ C8_Elem(hgCall.M, i) <= C8_Elem(hgCall.N, i)
                        /\ C8_Elem(hgCall.n, i) <= C8_Elem(hgCall.N, i)
        IN  /\ ~shapes => hgOut.err = "ValueError"
            /\ (shapes /\ conflict) => hgOut.err = "ValueError"
            /\ (n_out >= 1 /\ shapes /\ ~conflict /\ valid) =>
                  /\ hgOut.err = "none"
                  /\ Len(hgLayer.nodes) = n_out
                  /\ \A i \in 1..n_out :
                        hgLayer.nodes[i] = HgNode(scopes[i], C8_Elem(hgCall.N, i),
                                                  C8_Elem(hgCall.M, i), C8_Elem(hgCall.n, i))

\* C8 witness: set_params took an int for N and a list for M on a layer of
\* several nodes and changed the layer
C8_Witness ==
    /\ HgReturned("set_params")
    /\ hgOut.err = "none"
    /\ hgCall.N.tag = "int"
    /\ hgCall.M.tag = "seq"
    /\ Len(hgLayer.nodes) >= 2
    /\ hgLayer # hgCall.before

(***************************************************************************)
(* Claims about sample on a PartitionLayer                                 *)
(***************************************************************************)
\* the sampling context the last call worked with
SmCtxOfCall == IF smCall.ctx = SmNoCtx THEN SmDefaultCtx(NRows) ELSE smCall.ctx

\* how often row r was handed to a node by the last call
SmHanded(r) ==
    Cardinality({ek \in (1..Len(smLog)) \X (1..NRows) :
                    /\ ek[2] <= Len(smLog[ek[1]].instances)
                    /\ smLog[ek[1]].instances[ek[2]] = r})

\* C3: sample on a PartitionLayer raises ValueError when the sampling context
\* requests more than one output id for an instance, and when it requests no
\* output id while the layer has more than one output.
C3_AmbiguousRequestRaises ==
    smPc = "returned" =>
        LET ctx == SmCtxOfCall
        IN  (\E i \in 1..Len(ctx.output_ids) :
                \/ Len(ctx.output_ids[i]) > 1
                \/ Len(ctx.output_ids[i]) = 0 /\ smLayer > 1)
            => smOut.err = "ValueError"

\* C3 witness: one instance asked for two outputs, another for a single one,
\* and the call raised
C3_Witness ==
    /\ smPc = "returned"
    /\ smOut.err = "ValueError"
    /\ \E i, j \in 1..Len(SmCtxOfCall.output_ids) :
          /\ Len(SmCtxOfCall.output_ids[i]) = 2
          /\ Len(SmCtxOfCall.output_ids[j]) = 1

\* C4: sample on a PartitionLayer returns the very array object it was given
\* and hands every instance id of the sampling context exactly once to a
\* node, the one selected by the single output id of that instance; rows
\* whose ids are not in the sampling context are never handed to any node and
\* their entries stay unchanged.
C4_EachInstanceOnceToItsNode ==
    smPc = "returned" =>
        LET ctx == SmCtxOfCall
            single == \A i \in 1..Len(ctx.output_ids) : Len(ctx.output_ids[i]) = 1
        IN  /\ single =>
                /\ smOut.err = "none"
                /\ smOut.ref = smCall.before.ref
                /\ smData.ref = smCall.before.ref
                /\ \A i \in 1..Len(ctx.instance_ids) :
                      /\ SmHanded(ctx.instance_ids[i]) = 1
                      /\ \A e \in 1..Len(smLog) :
                            ctx.instance_ids[i] \in Range(smLog[e].instances)
                                => smLog[e].node = ctx.output_ids[i][1]
            /\ \A r \in SmRows \ Range(ctx.instance_ids) :
                  /\ SmHanded(r) = 0
                  /\ smData.cells[r] = smCall.before.cells[r]

\* C4 witness: two instances went to two different nodes that filled their
\* missing entries, and a row with a missing entry was not in the context
C4_Witness ==
    /\ smPc = "returned"
    /\ smOut.err = "none"
    /\ Len(smLog) = 2
    /\ smLog[1].node # smLog[2].node
    /\ \E r \in SmRows : smData.cells[r] = SmSampled(0)
    /\ \E r \in SmRows : smData.cells[r] = SmSampled(1)
    /\ \E r \in SmRows \ Range(SmCtxOfCall.instance_ids) : smData.cells[r] = SmNaN

\* C12: sample on a PartitionLayer is all-or-nothing: when it raised
\* ValueError for a group of instances with an invalid number of output ids,
\* no entry of the data array was filled by sampling for another group of
\* the same call.
C12_RaisedSampleFilledNothing ==
    (smPc = "returned" /\ smOut.err = "ValueError") =>
        smData.cells = smCall.before.cells

(***************************************************************************)
(* Claims about the memoized log_likelihood                                *)
(***************************************************************************)
\* the contexts of the model: the one the caller holds and the one the last
\* call used
LlContexts == {llCtx, llOut}

LlAtMostOnce(ctx) ==
    \A m \in LlIds : ctx.evals[m] <= 1 /\ ctx.cond_calls[m] <= 1

\* a request for a module that the context has cached returns the cached
\* value and evaluates nothing
LlCachedIsReturned ==
    (llPc = "returned" /\ llCall.before.cache[llCall.module].has) =>
        /\ llOut.err = "none"
        /\ llOut.ret = llCall.before.cache[llCall.module]
        /\ llOut.evals = llCall.before.evals
        /\ llOut.cond_calls = llCall.before.cond_calls

C2_Slots(ctx, part) == Flatten([c \in 1..Len(part) |-> ctx.cache[part[c]].v])

C2_Slot(ctx, part, i) ==
    IF Len(C2_Slots(ctx, part)) = 1 THEN C2_Slots(ctx, part)[1] ELSE C2_Slots(ctx, part)[i]

\* C2: output i of log_likelihood on a HadamardLayer equals the sum, over all
\* child partitions, of the log-likelihood of the i-th child slot of that
\* partition (the only slot for a partition of length 1).
C2_OutputIsSumOfSlots ==
    \A ctx \in LlContexts : \A m \in LlIds :
        (llNet[m].kind = "hadamard" /\ ctx.cache[m].has) =>
            /\ Len(ctx.cache[m].v) = LlNOut(llNet, m)
            /\ \A i \in 1..Len(ctx.cache[m].v) :
                  ctx.cache[m].v[i] =
                      SumSeq([p \in 1..Len(llNet[m].partitions) |->
                                 C2_Slot(ctx, llNet[m].partitions[p], i)])

\* C2 witness: a Hadamard layer with a partition of one slot and a partition
\* of two slots of different values returned two different outputs
C2_Witness ==
    /\ llPc = "returned"
    /\ llNet[llCall.module].kind = "hadamard"
    /\ llOut.err = "none"
    /\ \E p, q \in 1..Len(llNet[llCall.module].partitions) :
          /\ Len(C2_Slots(llOut, llNet[llCall.module].partitions[p])) = 1
          /\ Len(C2_Slots(llOut, llNet[llCall.module].partitions[q])) = 2
    /\ llOut.ret.v[1] # llOut.ret.v[2]

\* the parameter source C7 expects for layer m in the context the call used
C7_Source(m) ==
    LET a == llCall.before.args[m]
    IN  IF a.kind = "values" THEN [kind |-> "values", mean |-> a.mean, std |-> a.std]
        ELSE LET f == IF a.kind = "cond_f" THEN a.cond_f ELSE llNet[m].cond_f
             IN  [kind |-> f.kind, mean |-> LlMeans(f.base, llNet[m].n_out),
                  std |-> LlStds(llNet[m].n_out)]

\* C7: log_likelihood on a conditional leaf layer takes its parameters from
\* the args of the dispatch context for that layer when they hold parameter
\* values, else from a cond_f stored in those args, else from the cond_f of
\* the layer; with none of the three it raises ValueError, a cond_f whose
\* result lacks a required parameter raises KeyError, and node i is evaluated
\* with the i-th retrieved parameter values.
C7_ParamSourceOrder ==
    (/\ llPc = "returned"
     /\ llNet[llCall.module].kind = "leaf"
     /\ ~llCall.before.cache[llCall.module].has) =>
        LET m == llCall.module
            src == C7_Source(m)
        IN  /\ src.kind = "none" => llOut.err = "ValueError"
            /\ src.kind = "partial" => llOut.err = "KeyError"
            /\ src.kind \in {"values", "full"} =>
                  /\ llOut.err = "none"
                  /\ Len(llOut.ret.v) = llNet[m].n_out
                  /\ \A i \in 1..llNet[m].n_out :
                        /\ llOut.node_args[m][i] = [mean |-> src.mean[i], std |-> src.std[i]]
                        /\ llOut.ret.v[i] =
                              LeafLL(src.mean[i], src.std[i], llCall.x[llNet[m].col])

\* C7 witness: a leaf layer of two nodes that has a cond_f of its own was
\* evaluated with a context whose args hold another cond_f
C7_Witness ==
    /\ llPc = "returned"
    /\ llCall.module = 1
    /\ llNet[1].n_out = 2
    /\ llNet[1].cond_f.kind = "full"
    /\ llCall.before.args[1].kind = "cond_f"
    /\ llCall.before.args[1].cond_f.kind = "full"
    /\ llOut.err = "none"
    /\ llOut.ret.v[1] # llOut.ret.v[2]

(***************************************************************************)
(* Claims about maximum_likelihood_estimation of a Geometric leaf          *)
(***************************************************************************)
C9_Missing == {i \in 1..Len(mleCall.data) : mleCall.data[i] = MleNaN}

\* C9: maximum_likelihood_estimation on a Geometric leaf raises ValueError and
\* leaves p unchanged when the weights are not one-dimensional with one entry
\* per data row; check_support is true and a non-missing value lies outside
\* the support; the data column of the leaf is entirely missing, whatever
\* nan_strategy is; some value is missing and nan_strategy is None;
\* nan_strategy is a string other than 'ignore'; or nan_strategy is neither
\* None, a string nor a callable.
C9_InvalidInputRaises ==
    mlePc = "returned" =>
        LET n == Len(mleCall.data)
            w == mleCall.weights
            badWeights == w.tag = "matrix" \/ (w.tag = "vec" /\ Len(w.vals) # n)
            outside == /\ mleCall.check_support
                       /\ \E i \in 1..n : mleCall.data[i] # MleNaN /\ mleCall.data[i] < 1
            allMissing == C9_Missing = 1..n
            missingNoStrategy == C9_Missing # {} /\ mleCall.nan_strategy = "None"
            otherString == mleCall.nan_strategy = "other string"
            otherType == mleCall.nan_strategy = "number"
        IN  (badWeights \/ outside \/ allMissing \/ missingNoStrategy
                \/ otherString \/ otherType)
            => (mleOut.err = "ValueError" /\ mleLeaf.p = mleCall.before)

\* C9 witness: an earlier call has fitted p, and a call whose only fault is a
\* nan_strategy string other than 'ignore' raised
C9_Witness ==
    /\ mlePc = "returned"
    /\ mleOut.err = "ValueError"
    /\ mleCall.before # <<1, 2>>
    /\ mleCall.nan_strategy = "other string"
    /\ mleCall.weights.tag = "none"
    /\ Len(mleCall.data) = 2
    /\ \A i \in 1..2 : mleCall.data[i] >= 1

\* the weights of the rows without a missing value
C10_KeptWeights ==
    IF mleCall.weights.tag = "none" THEN NoWeights
    ELSE WeightVec([k \in 1..Len(MleKeep(mleCall.data)) |->
                       mleCall.weights.vals[MleKeep(mleCall.data)[k]]])

\* the outcome of fitting the rows without a missing value, with their
\* weights and no nan_strategy
C10_FitOfKeptRows ==
    MleEval(mleCall.before, MleDropData(mleCall.data), C10_KeptWeights,
            mleCall.bias_correction, "None", mleCall.check_support)

\* C10: with nan_strategy='ignore', maximum_likelihood_estimation drops every
\* row whose value is missing together with the weight of that row, so the
\* fitted parameter equals the one obtained by fitting the same data and
\* weights with those rows removed beforehand and no nan_strategy.
C10_IgnoreEqualsRemoved ==
    (/\ mlePc = "returned"
     /\ mleCall.nan_strategy = "ignore"
     /\ ~MleWeightsBad(IF mleCall.weights.tag = "none"
                       THEN WeightVec([i \in 1..Len(mleCall.data) |-> 1])
                       ELSE mleCall.weights, Len(mleCall.data)))
        => /\ mleOut.err = C10_FitOfKeptRows.err
           /\ mleLeaf.p = C10_FitOfKeptRows.p

\* C10 witness: the first of two rows was missing, the rows had different
\* weights, and the fit changed p
C10_Witness ==
    /\ mlePc = "returned"
    /\ mleCall.nan_strategy = "ignore"
    /\ mleOut.err = "none"
    /\ Len(mleCall.data) = 2
    /\ mleCall.data[1] = MleNaN
    /\ mleCall.weights.tag = "vec"
    /\ mleCall.weights.vals[1] # mleCall.weights.vals[2]
    /\ mleLeaf.p # mleCall.before

(***************************************************************************)
(* Claims about maximum_likelihood_estimation of GaussianLayer             *)
(***************************************************************************)
\* C11: maximum_likelihood_estimation on a GaussianLayer is all-or-nothing:
\* when the call raised, the mean and the std of every node of the layer are
\* what they were before the call.
C11_RaisedLeavesLayerUnchanged ==
    (gsPc = "returned" /\ gsOut # "none") => gsLayer = gsCall.before

(***************************************************************************)
(* Claims about em of a Geometric leaf                                     *)
(***************************************************************************)
\* the context the last call worked with
EmCtxOfCall ==
    EmInitDefaultCtx(IF emCall.with_ctx THEN emCall.ctx_before ELSE EmNoCtx)

\* the cached gradient as it came out of the backward pass: whole numbers
EmWholeGrad == \A i \in 1..Len(EmCtxOfCall.ll.grad) : EmCtxOfCall.ll.grad[i][2] = 1

\* maximum_likelihood_estimation called by hand with the cached gradient as
\* weights, bias_correction=False and no nan_strategy
EmByHand ==
    MleEval(emCall.before, emCall.data,
            WeightVec([i \in 1..Len(EmCtxOfCall.ll.grad) |-> EmCtxOfCall.ll.grad[i][1]]),
            FALSE, "None", emCall.check_support)

\* C13: em on a Geometric leaf updates p only from the log-likelihood gradient
\* cached for the leaf in the dispatch context it is given: without a cached
\* log-likelihood, or with one that was not back-propagated, em fails and p
\* is unchanged; p changes only when em has run the estimation, and then p is
\* what maximum_likelihood_estimation gives for the cached gradient as weights
\* with bias_correction=False.
C13_EmFitsFromCachedGradient ==
    (emPc = "returned" /\ emCall.op = "em") =>
        /\ (~EmCtxOfCall.ll.has \/ ~EmCtxOfCall.ll.has_grad) =>
              (emOut.err # "none" /\ emLeaf.p = emCall.before)
        /\ emLeaf.p # emCall.before => emOut.fitted
        /\ emOut.fitted => (emCall.with_ctx /\ EmCtxOfCall.ll.has_grad /\ emOut.err = "none")
        /\ (EmCtxOfCall.ll.has_grad /\ EmWholeGrad /\ ~EmCtxOfCall.em /\ ~EmCtxOfCall.mle) =>
              (EmByHand.err = emOut.err /\ EmByHand.p = emLeaf.p)

\* C13 witness: em ran in a context whose cached gradient weighs the two rows
\* differently, and changed p
C13_Witness ==
    /\ emPc = "returned"
    /\ emCall.op = "em"
    /\ emOut.fitted
    /\ emLeaf.p # emCall.before
    /\ emCall.data = <<1, 2>>
    /\ EmCtxOfCall.ll.grad = <<FracOf(1), FracOf(2)>>

(***************************************************************************)
(* Claims about calls without a dispatch context                           *)
(***************************************************************************)
\* sample returned, and every instance of its sampling context asked for a
\* single output
NcSampleValid ==
    /\ smPc = "returned"
    /\ \A i \in 1..Len(SmCtxOfCall.output_ids) : Len(SmCtxOfCall.output_ids[i]) = 1

\* log_likelihood returned from a call without a context on a circuit whose
\* conditional leaf layers all have a cond_f that gives every parameter
NcLogLikelihoodValid ==
    /\ llPc = "returned"
    /\ ~llCall.explicit
    /\ \A m \in LlIds : llNet[m].kind = "leaf" => llNet[m].cond_f.kind = "full"

\* the rows the estimation uses
NcUsedRows ==
    {i \in 1..Len(mleCall.data) :
        mleCall.nan_strategy = "ignore" => mleCall.data[i] # MleNaN}

\* maximum_likelihood_estimation returned from a call with data in the
\* support, missing values only under a strategy that handles them, and
\* weights that are absent or one per row with a positive sum over the rows
\* that are used
NcMleValid ==
    /\ mlePc = "returned"
    /\ \A i \in 1..Len(mleCall.data) : MleInSupport(mleCall.data[i])
    /\ \E i \in 1..Len(mleCall.data) : mleCall.data[i] # MleNaN
    /\ mleCall.nan_strategy \in {"None", "ignore", "callable"}
    /\ mleCall.nan_strategy = "None" => \A i \in 1..Len(mleCall.data) : mleCall.data[i] # MleNaN
    /\ \/ mleCall.weights = NoWeights
       \/ /\ mleCall.weights.tag = "vec"
          /\ Len(mleCall.weights.vals) = Len(mleCall.data)
          /\ \E i \in NcUsedRows : mleCall.weights.vals[i] > 0

\* em returned from a call without a context
NcEmNoCtx == emPc = "returned" /\ emCall.op = "em" /\ ~emCall.with_ctx

\* log_likelihood, sample and maximum_likelihood_estimation complete without
\* error when they are called without a dispatch context on valid arguments,
\* and the context a caller holds is not touched
NcOthersComplete ==
    /\ NcSampleValid => smOut.err = "none"
    /\ NcLogLikelihoodValid => (llOut.err = "none" /\ llCtx = NewCtx)
    /\ NcMleValid => mleOut.err = "none"

C15_DelegatesToActiveBackend ==
    ggPc = "returned" =>
        LET cls == IF ggCall.backend = "numpy" THEN "TensorlyGaussian"
                   ELSE "TorchGaussian"
            d   == GgConcrete(cls, ggCall.op, ggCall.before, ggCall.args)
        IN  IF ggCall.backend \in {"numpy", "pytorch"}
            THEN /\ ggOut.err = d.err
                 /\ ggOut.val = d.val
                 /\ ggOut.ran = cls
                 /\ ggOut.obj = d.obj
            ELSE /\ ggOut.err = "NotImplementedError"
                 /\ ggOut.ran = ""

(***************************************************************************)
(* Claims about the estimate of a Geometric leaf                           *)
(***************************************************************************)
\* the weights the last estimation was given, all ones for weights=None
C16_Weights ==
    IF mleCall.weights = NoWeights THEN [i \in 1..Len(mleCall.data) |-> 1]
    ELSE mleCall.weights.vals

\* the data the estimation uses: missing values replaced under the callable
\* strategy of the model
C16_Data ==
    IF mleCall.nan_strategy = "callable" THEN MleFill(mleCall.data) ELSE mleCall.data

\* the sum of f[i] over the rows of S
RECURSIVE C16_Sum(_, _)
C16_Sum(S, f) ==
    IF S = {} THEN 0
    ELSE LET i == CHOOSE x \in S : TRUE IN f[i] + C16_Sum(S \ {i}, f)

\* N divided by the weighted sum of the data, where the weights are rescaled
\* to sum to the number n of rows used and N is n, or n - 1 under bias
\* correction: (N * W) / (n * sum(w * x)) for weights w with sum W
C16_Expected ==
    LET U == NcUsedRows
        n == Cardinality(U)
        N == IF mleCall.bias_correction THEN n - 1 ELSE n
        W == C16_Sum(U, C16_Weights)
        S == C16_Sum(U, [i \in 1..Len(mleCall.data) |-> C16_Weights[i] * C16_Data[i]])
    IN  [num |-> N * W, den |-> n * S]

RECURSIVE C17_Same(_, _)
C17_Same(a, b) ==
    /\ lgNodes[a].type = lgNodes[b].type
    /\ lgNodes[a].scope = lgNodes[b].scope
    /\ Len(lgNodes[a].children) = Len(lgNodes[b].children)
    /\ \A i \in 1..Len(lgNodes[a].children) :
          C17_Same(lgNodes[a].children[i], lgNodes[b].children[i])
    /\ lgNodes[a].type = "SumNode" =>
          /\ Len(lgNodes[a].weights) = Len(lgNodes[b].weights)
          /\ \A i \in 1..Len(lgNodes[a].weights) :
                LgIsClose(lgNodes[a].weights[i], lgNodes[b].weights[i])

\* C17: in the legacy graph, equals returns true exactly when both nodes have
\* the same concrete class, equal scope lists, the same number of children
\* with the children pairwise equal under equals, and, for sum nodes, the
\* same number of weights with every pair of weights equal within relative
\* tolerance 1e-5.
C17_EqualsExactlyWhenSame ==
    (lgPc = "returned" /\ lgCall.op = "equals") =>
        (lgOut.eq <=> C17_Same(lgCall.a, lgCall.b))

\* the nodes that can be reached from the roots of the last call
RECURSIVE C18_Reach(_)
C18_Reach(S) ==
    LET T == S \cup UNION {Range(lgNodes[n].children) : n \in S}
    IN  IF T = S THEN S ELSE C18_Reach(T)

\* C18: _get_node_counts counts, and _print_node_graph prints, every node
\* reachable from the given root or roots exactly once, also when a node is
\* shared by several parents at different depths; the three counts sum to
\* the number of distinct reachable nodes.
C18_EveryNodeOnce ==
    (lgPc = "returned" /\ lgCall.op \in {"_get_node_counts", "_print_node_graph"}) =>
        /\ \A n \in C18_Reach(Range(lgCall.roots)) :
              Cardinality({i \in 1..Len(lgOut.popped) : lgOut.popped[i] = n}) = 1
        /\ lgCall.op = "_get_node_counts" =>
              lgOut.counts[1] + lgOut.counts[2] + lgOut.counts[3]
                  = Cardinality(C18_Reach(Range(lgCall.roots)))

(***************************************************************************)
(* Claims about the legacy histogram leaf                                  *)
(***************************************************************************)
\* histogram_likelihood returned, and row i of its data is a value below
\* breaks[0] or above breaks[-1]
C19_Returned ==
    hsPc = "returned" /\ hsCall.op = "histogram_likelihood" /\ hsOut.err = "none"

C19_Outside(i) ==
    \/ HsLt(hsCall.data[i], hsNode.breaks[1])
    \/ HsGt(hsCall.data[i], hsNode.breaks[Len(hsNode.breaks)])

\* C19 as stated: histogram_likelihood gives probability 0 to every value
\* below breaks[0] or above breaks[-1], and this 0 is not raised to the
\* EPSILON floor: the value returned for such an input is the logarithm of 0,
\* not log(EPSILON).
C19_OutsideIsLogZero ==
    C19_Returned =>
        \A i \in 1..Len(hsCall.data) :
            C19_Outside(i) => hsOut.probs[i] = FracOf(0) /\ hsOut.logs[i] = HsLog(FracOf(0))

\* C19 amended: histogram_likelihood gives probability 0 to every value
\* below breaks[0] or above breaks[-1], and this 0 is raised to the EPSILON
\* floor like every other probability below EPSILON: the value returned for
\* such an input is log(EPSILON), not the logarithm of 0.
C19_OutsideIsLogEpsilon ==
    C19_Returned =>
        \A i \in 1..Len(hsCall.data) :
            C19_Outside(i) => hsOut.probs[i] = FracOf(0) /\ hsOut.logs[i] = HsLog(EPSILON)

C19_Witness ==
    /\ C19_Returned
    /\ \E i \in 1..Len(hsCall.data) : C19_Outside(i) /\ hsCall.data[i] < hsNode.breaks[1]
    /\ \E i \in 1..Len(hsCall.data) : C19_Outside(i) /\ hsCall.data[i] > hsNode.breaks[1]

\* C20: for a Histogram leaf built with Laplace smoothing (alpha = 1.0),
\* histogram_likelihood never returns a log-probability below log(EPSILON),
\* for any input row: every probability below EPSILON is raised to EPSILON
\* before the logarithm is taken.
C20_NeverBelowLogEpsilon ==
    (C19_Returned /\ hsNode.smoothed) =>
        \A i \in 1..Len(hsCall.data) :
            /\ ~HsLogBelow(hsOut.logs[i], HsLog(EPSILON))
            /\ hsOut.logs[i] = IF FracLess(hsOut.probs[i], EPSILON)
                               THEN HsLog(EPSILON) ELSE HsLog(hsOut.probs[i])

C20_Witness ==
    /\ C19_Returned /\ hsNode.smoothed
    /\ \E i \in 1..Len(hsCall.data) : FracLess(hsOut.probs[i], EPSILON)
    /\ \E i \in 1..Len(hsCall.data) : ~FracLess(hsOut.probs[i], EPSILON)

\* every row of the data of the last call is a number inside the breaks
C26_AllInside ==
    \A i \in 1..Len(hsCall.data) :
        /\ hsCall.data[i] # HsNaN
        /\ hsNode.breaks[1] <= hsCall.data[i]
        /\ hsCall.data[i] <= hsNode.breaks[Len(hsNode.breaks)]

\* C26: for a Histogram with ascending breaks and one density for each bin,
\* histogram_likelihood maps every value x with breaks[0] <= x <= breaks[-1],
\* including x equal to the last break, to an existing bin whose lower
\* boundary is <= x, and returns the logarithm of that bin's floored density
\* without raising.
C26_InsideNeverRaises ==
    (hsPc = "returned" /\ hsCall.op = "histogram_likelihood" /\ C26_AllInside) =>
        /\ hsOut.err = "none"
        /\ \A i \in 1..Len(hsCall.data) :
              \E bin \in 1..Len(hsNode.densities) :
                 /\ hsNode.breaks[bin] <= hsCall.data[i]
                 /\ hsOut.logs[i] = HsLog(HsFloor(hsNode.densities[bin]))

\* C27: _get_node_counts and _print_node_graph do not modify their arguments:
\* after either returns, a list of root nodes passed by the caller still
\* holds the same nodes in the same order and no node's children list has
\* changed.
C27_ArgumentsUnchanged ==
    [][(LgCallGetNodeCounts \/ LgCallPrintNodeGraph) =>
          /\ lgNodes' = lgNodes
          /\ ~lgCall'.wrapped => lgOut'.roots = lgCall'.roots]_vars

\* C25: in every state reachable by constructing a HypergeometricLayer and
\* then calling set_params any number of times, including calls that raise,
\* the layer has exactly n_out nodes and n_out output scopes, its N, M and n
\* list the nodes' values in node order, and any two nodes with the same query
\* variable have identical N, M and n.
C25_LayerInvariant ==
    hgLayer # NoLayer =>
        /\ Len(hgLayer.nodes) = Len(hgLayer.scopes_out)
        /\ \A i \in 1..Len(hgLayer.nodes) : hgLayer.nodes[i].scope = hgLayer.scopes_out[i]
        /\ \A i \in 1..Len(hgLayer.nodes), j \in 1..Len(hgLayer.nodes) :
              hgLayer.scopes_out[i] = hgLayer.scopes_out[j] =>
                 /\ hgLayer.nodes[i].N = hgLayer.nodes[j].N
                 /\ hgLayer.nodes[i].M = hgLayer.nodes[j].M
                 /\ hgLayer.nodes[i].n = hgLayer.nodes[j].n

(***************************************************************************)
(* Claims about successive estimations on a Geometric leaf                 *)
(***************************************************************************)
\* maximum_likelihood_estimation returned, and its data are in the support
C28_Returned ==
    /\ emPc = "returned" /\ emCall.op = "mle"
    /\ \A i \in 1..Len(emCall.data) : emCall.data[i] >= 1

\* the estimate for the data of the call under bias correction: the number
\* of rows less one over the sum of the rows, 1e-8 for a single row
C28_Estimate ==
    IF Len(emCall.data) = 1 THEN PEpsilon
    ELSE Frac(Len(emCall.data) - 1, SumSeq(emCall.data))

\* the context of the call already holds a result of the estimation
C28_Memoized == emCall.with_ctx /\ emCall.ctx_before.mle

\* C28 as stated: every call of maximum_likelihood_estimation re-estimates
\* from the data of that call: after two successive calls on the same
\* Geometric leaf with different data, the leaf's p is the estimate for the
\* second call's data, whether the two calls are given the same explicitly
\* passed dispatch context or no context at all.
C28_EveryCallReestimates ==
    C28_Returned => (emOut.err = "none" /\ emLeaf.p = C28_Estimate)

\* C28 amended: a call of maximum_likelihood_estimation re-estimates from the
\* data of that call when it is given no context or a context that holds no
\* result of the estimation for the leaf; a call given a context in which
\* the leaf was estimated before returns the memoized result and leaves p
\* as it was.
C28_ReestimatesUnlessMemoized ==
    C28_Returned =>
        /\ emOut.err = "none"
        /\ emLeaf.p = (IF C28_Memoized THEN emCall.before ELSE C28_Estimate)

\* C28 witness: a second call with the same context and other data left p at
\* the first estimate
C28_Witness ==
    /\ C28_Returned /\ C28_Memoized
    /\ Len(emCall.data) = 2
    /\ emLeaf.p # C28_Estimate
    /\ emLeaf.p # <<1, 2>>

\* C29: maximum_likelihood_estimation and em on a Geometric leaf change
\* nothing but the leaf's parameter and the context's memo entries: the
\* log-likelihood gradient cached in the dispatch context holds the same
\* values after the call as before it. Stated for the calls that complete.
C29_CachedGradientUnchanged ==
    (emPc = "returned" /\ emCall.op \in {"em", "mle"} /\ emOut.err = "none") =>
        emCtx.ll = emCall.ctx_before.ll

\* C30: sample on a PartitionLayer accepts an instance whose output-id list
\* is empty when the layer has exactly one output, sampling that single
\* output; an empty output-id list is an error only when the layer has more
\* than one output.
C30_EmptyIdsAcceptedForOneOutput ==
    (/\ smPc = "returned"
     /\ smLayer = 1
     /\ Len(SmCtxOfCall.output_ids) >= 1
     /\ \A i \in 1..Len(SmCtxOfCall.output_ids) : SmCtxOfCall.output_ids[i] = <<>>)
        => smOut.err = "none"

\* C22: across any sequence of calls to getHistogramVals / init_rpy in one
\* process, the external statistical computing environment is bootstrapped
\* (script loaded and array conversion activated) at most once; every later
\* call returns without initializing it again.
C22_BootstrappedAtMostOnce == hsRpy.boots <= 1

\* what the domain has to hold for column col of the data of the last call
C23_Entry(col) ==
    IF dsCtx.statistical_type[col] = "continuous"
    THEN DsMinMax(DsColumn(dsCall.data, col))
    ELSE DsUnique(DsColumn(dsCall.data, col))

\* C23: after add_domains(data, ds_context), ds_context.domain has exactly one
\* entry per data column, and entry i describes column i: its observed
\* [min, max] when column i is continuous, its set of observed unique values
\* when column i is discrete or categorical.
C23_OneEntryPerColumn ==
    (dsPc = "returned" /\ dsCall.err = "none") =>
        /\ Len(dsCtx.domain) = Len(dsCall.data[1])
        /\ \A col \in 1..Len(dsCall.data[1]) :
              dsCtx.statistical_type[col] \in {"continuous", "discrete", "categorical"}
                 => dsCtx.domain[col] = C23_Entry(col)

\* C24: learn_spn terminates and returns a single Module for every finite
\* data set, every admissible min_instances_slice / min_features_slice and
\* every clustering and partitioning method that returns one label per row
\* respectively per column: the recursion always reaches the feature-count
\* or instance-count base case, so no call ends in the recursion limit.
C24_AlwaysReachesBaseCase ==
    lsPc = "returned" => (lsOut.err = "none" /\ lsOut.leaves >= 1)

\* the numbers of two lists are equal up to rounding at TxPrecision digits
C21_SameRounded(xs, ys) ==
    /\ Len(xs) = Len(ys)
    /\ \A i \in 1..Len(xs) : TxRound(xs[i]) = TxRound(ys[i])

\* C21: serializing a Histogram leaf with histogram_to_str and parsing the
\* text back with the histogram grammar and tree_to_spn, using the same
\* feature-name list, yields a Histogram whose scope is the original variable
\* index and whose breaks and densities equal the originals up to 10-decimal
\* rounding.
C21_RoundTrip ==
    txPc = "returned" =>
        /\ txOut.err = "none"
        /\ txOut.node.scope = txCall.node.scope
        /\ C21_SameRounded(txOut.node.breaks, txCall.node.breaks)
        /\ C21_SameRounded(txOut.node.densities, txCall.node.densities)

====
